---- MODULE Spec2Model ----
(***************************************************************************)
(* unison-protocol: one UnisonChannel on one QUIC bidirectional stream,    *)
(* seen from the side that issues request() (network/channel.rs), the      *)
(* UnisonStream under it (network/quic.rs) and the ConnectionContext       *)
(* registry the channel is registered in (network/context.rs,              *)
(* network/client.rs).  The peer and the QUIC transport are the            *)
(* environment.                                                            *)
(***************************************************************************)
EXTENDS Integers, Sequences, FiniteSets, TLC

\* ---------------------------------------------------------------- bounds
NumCallers == 2          \* concurrent request() calls
MaxUnsolicited == 1      \* frames the peer writes that answer no request
MaxCloses == 2           \* close() calls
MaxInFlight == 1         \* frames written by the peer and not yet read
MaxQueued == 3           \* events and raw frames the peer pushes (QueueSpec)
MaxWire == 2             \* pushed frames not yet read (QueueSpec)
MaxStreams == 2          \* client-initiated streams of the connection (ConnSpec)
MaxPushed == 1           \* streams opened by a server that is not this one (ConnSpec)

Callers == 1..NumCallers
Values == {"a", "b"}                      \* decoded JSON values
ChannelNames == {"ping"}
ChanIds == 1..2                           \* channels of one connection (MuxSpec)
HandlerNames == {"ping", "echo"}          \* names a server handler can be registered under
StreamIds == 1..MaxStreams

\* ------------------------------------------------------- program constants
QueueCapacity == 256     \* mpsc::channel(256), event and raw queue
FirstId_Zero == 1 - 1    \* mutant: the counter starts at 0
FirstId == 1             \* next_id: AtomicU64::new(1)

\* ---------------------------------------------------------- JSON payloads
\* ProtocolMessage.payload is a JSON text; new_with_json serialises a value,
\* payload_as_value parses it back and fails on a text that is not JSON.
to_string(v) == <<"json", v>>
NotJson == <<"text", "not json">>
IsJson(text) == text[1] = "json"
from_str(text) == IF IsJson(text) THEN text[2] ELSE "parse_error"
NoPayload == <<"none", "none">>
RawBytes == <<"bytes", "DEADBEEF">>
OtherBytes == <<"bytes", "CAFE">>
PeerTexts == {to_string(v) : v \in Values}

\* ------------------------------------------------------------ wire frames
\* t: "proto" (tag 0x00, decodable ProtocolMessage), "undecodable" (tag 0x00,
\* bytes that are no ProtocolFrame), "raw" (tag 0x01), "badtag" (any other tag)
Frame(t, kind, id, payload) == [t |-> t, kind |-> kind, id |-> id, payload |-> payload]
NoMsg == Frame("none", "none", 0, NoPayload)

new_with_json(id, kind, value) == Frame("proto", kind, id, to_string(value))

\* A ProtocolMessage with its method.  A method is the pair of its
\* "__channel:" prefix, if any, and the rest.
Message(id, method, kind, payload) ==
    [t |-> "proto", id |-> id, method |-> method, kind |-> kind, payload |-> payload]
ChannelMethod(name) == <<"__channel:", name>>
PlainMethod(name) == <<"", name>>
IdentityMethod == PlainMethod("__identity")
\* request.method.strip_prefix("__channel:"): Option as a set
strip_prefix(method) == IF method[1] = "__channel:" THEN {method[2]} ELSE {}

\* ----------------------------------------------------------- ServerIdentity
DefaultConfig == [name |-> "unison", version |-> "CARGO_PKG_VERSION", namespace |-> "default"]
ServerConfigs == {DefaultConfig, [name |-> "test-server", version |-> "1.0.0", namespace |-> "test.ns"]}

ServerIdentity_new(name, version, namespace) ==
    [name |-> name, version |-> version, namespace |-> namespace,
     channels |-> << >>, metadata |-> "null"]
add_channel(identity, channel) == [identity EXCEPT !.channels = Append(@, channel)]

\* handlers.keys(): the keys of a HashMap come in an unspecified order
RECURSIVE KeyOrders(_)
KeyOrders(S) ==
    IF S = {} THEN {<< >>}
    ELSE UNION {{<<n>> \o rest : rest \in KeyOrders(S \ {n})} : n \in S}

ChannelInfo(name) ==
    [name |-> name, direction |-> "bidirectional", lifetime |-> "persistent",
     status |-> "available"]

\* mutant: the identity lists no channel
build_identity_NoChannels(cfg, keys) == ServerIdentity_new(cfg.name, cfg.version, cfg.namespace)

RECURSIVE AddChannels(_, _)
AddChannels(identity, keys) ==
    IF keys = << >> THEN identity
    ELSE AddChannels(add_channel(identity, ChannelInfo(Head(keys))), Tail(keys))

\* ProtocolServer::build_identity, the handler names taken in the order keys
build_identity(cfg, keys) ==
    AddChannels(ServerIdentity_new(cfg.name, cfg.version, cfg.namespace), keys)

to_protocol_message(identity) == Message(0, IdentityMethod, "Event", to_string(identity))
\* serde_json::from_str(&msg.payload): Result as a set, empty on a parse error
from_protocol_message(msg) == IF IsJson(msg.payload) THEN {from_str(msg.payload)} ELSE {}

VARIABLES
    connection,     \* QuicClient.connection: "none" | "open"
    registry,       \* ConnectionContext.channels: channel name -> ChannelHandle
    chanOpen,       \* the UnisonChannel has been constructed
    next_id,        \* UnisonChannel.next_id
    pending,        \* UnisonChannel.pending: id -> caller owning the oneshot receiver
    eventq,         \* event_tx/event_rx buffer
    rawq,           \* raw_tx/raw_rx buffer
    recv_task,      \* UnisonChannel.recv_task: TRUE = Some(handle)
    recvLoop,       \* the spawned task: "running" | "aborting" | "aborted" | "exited"
    is_active,      \* UnisonStream.is_active
    send_stream,    \* UnisonStream.send_stream: TRUE = Some
    recv_stream,    \* UnisonStream.recv_stream: TRUE = Some
    callers,        \* one record per request() call
    peerInbox,      \* ids of the Requests the peer has read and not answered
    s2c,            \* frames written by the peer and not yet read, in order
    unsolicited,    \* number of frames the peer wrote that answer no request
    peerFin,        \* the peer finished its send side (EOF after the last frame)
    allocOrder,     \* ids in the order fetch_add handed them out (history)
    closeCount,     \* number of close() calls that have returned
    lastOp,         \* the last API call other than request(): what it returned
    wireSent,       \* every frame the peer wrote on the stream, in order (history)
    evRecvd,        \* the messages recv() returned, in order (history)
    rawRecvd,       \* the byte strings recv_raw() returned, in order (history)
    serverKind,     \* "unison": the peer runs handle_connection; "other": it does not
    server_cfg,     \* ProtocolServer.server_name / server_version / server_namespace
    channel_handlers, \* ProtocolServer.channel_handlers: the registered names
    link,           \* the QUIC connection: "none" | "up" | "down"
    srvPc,          \* handle_connection's position
    srvIdentity,    \* server-side ConnectionContext.identity (Option as a set)
    idWritten,      \* __identity frames the server wrote (history)
    connEvents,     \* ConnectionEvents delivered to the subscriber
    s2cStreams,     \* server-initiated streams the client has not read: first frames
    pushed,         \* streams opened by a server of kind "other"
    cliPc,          \* ProtocolClient::connect's position
    cliRx,          \* QuicClient.tx / rx: messages from client_accept_bi_loop
    response_tasks, \* QuicClient.response_tasks, the client_accept_bi_loop task:
                    \* "none" | "running" | "aborted"
    cliIdentity,    \* client-side ConnectionContext.identity (Option as a set)
    cstreams,       \* client-initiated streams as the server sees them
    invocations,    \* channel handler calls: (name, context, stream), in order
    mx,             \* the channels of one connection: per channel its stream,
                    \* receive task, pending map, id counter and peer
    mxCallers,      \* the request() calls on those channels
    connection_event_tx, \* ProtocolServer.connection_event_tx: 0 = None, else
                    \* the receiver its Sender belongs to
    eventRx,        \* the Receivers subscribe_connection_events has returned
    wire,           \* bytes written on one direction of a stream and not yet read
    wfin,           \* that direction has been finished by its writer
    sender,         \* the UnisonStream at the writing end: is_active, send_stream
                    \* (TRUE = Some) and the holder of the send_stream mutex
    writers,        \* the send_frame / send_raw_frame calls on it, one per task
    sentLog,        \* the frames of those calls in the order they took the mutex
    receiver,       \* the UnisonStream at the reading end: is_active, recv_stream
    gotLog,         \* what its recv_typed_frame calls returned, in order
    sendLog,        \* what send_frame calls on the reading end's stream returned
    peerWrites,     \* number of writes of a peer that is not a UnisonStream
    ctxLog,         \* the register_channel / remove_channel calls on the client's
                    \* ConnectionContext, in order
    COUNTER,        \* generate_request_id: static COUNTER: AtomicU64
    handshakes,     \* the streams ProtocolClient::open_channel has opened: the
                    \* bytes it wrote and what the server's handshake read found
    openLog,        \* the open_channel calls: whether the client held a
                    \* connection, the result, and what the call changed
    running,        \* ProtocolServer.running
    endpoint,       \* QuicServer.endpoint: "none" | "open" | "closed" (close() was
                    \* called) | "dropped" (the QuicServer was dropped unclosed)
    shutdown_tx,    \* ServerHandle.shutdown_tx: TRUE = Some
    shutdown_rx,    \* the oneshot the accept loop selects on: "empty" | "signalled"
    serverTask,     \* the task running the accept loop: "none" | "select" (in
                    \* endpoint.accept) | "handshake" (in connecting.await) | "finished"
    taskResult,     \* what start / start_with_shutdown returned
    listenCall,     \* the entry point used and what it returned
    shutdownCall,   \* ServerHandle::shutdown: "none" | "joining" | "Ok" | "Err"
    incoming,       \* connection attempts waiting at the endpoint
    arrivals,       \* connection attempts made so far
    handled,        \* handle_connection tasks spawned so far
    hsFailed,       \* connection attempts whose QUIC/TLS handshake failed
    handledLate     \* a connection was accepted after shutdown() had returned

vars == <<connection, registry, chanOpen, next_id, pending, eventq, rawq, recv_task,
          recvLoop, is_active, send_stream, recv_stream, callers, peerInbox, s2c,
          unsolicited, peerFin, allocOrder, closeCount, lastOp,
          wireSent, evRecvd, rawRecvd,
          serverKind, server_cfg, channel_handlers, link, srvPc, srvIdentity, idWritten,
          connEvents, s2cStreams, pushed, cliPc, cliRx, response_tasks, cliIdentity,
          cstreams,
          invocations, mx, mxCallers, connection_event_tx, eventRx,
          wire, wfin, sender, writers, sentLog, receiver, gotLog, sendLog, peerWrites,
          ctxLog, COUNTER, handshakes, openLog,
          running, endpoint, shutdown_tx, shutdown_rx, serverTask, taskResult,
          listenCall, shutdownCall, incoming, arrivals, handled, hsFailed, handledLate>>

ctxVars == <<connection, registry, chanOpen>>
chanVars == <<next_id, pending, eventq, rawq, recv_task, recvLoop, is_active,
              send_stream, recv_stream>>
peerVars == <<peerInbox, s2c, unsolicited, peerFin>>
histVars == <<allocOrder, closeCount, lastOp>>
queueVars == <<wireSent, evRecvd, rawRecvd>>
srvVars == <<serverKind, server_cfg, channel_handlers, srvPc, srvIdentity, idWritten,
             connEvents, cstreams, invocations>>
cliVars == <<cliPc, cliRx, response_tasks, cliIdentity>>
netVars == <<link, s2cStreams, pushed>>
evtVars == <<connection_event_tx, eventRx>>
frmVars == <<wire, wfin, sender, writers, sentLog, receiver, gotLog, sendLog, peerWrites>>
lifeVars == <<ctxLog, COUNTER, handshakes, openLog>>
lsnVars == <<running, endpoint, shutdown_tx, shutdown_rx, serverTask, taskResult,
            listenCall, shutdownCall, incoming, arrivals, handled, hsFailed, handledLate>>
extVars == <<evtVars, frmVars, lifeVars, lsnVars>>
connVars == <<srvVars, cliVars, netVars, extVars>>
muxVars == <<mx, mxCallers>>
envVars == <<connVars, muxVars>>
auxVars == <<queueVars, envVars>>
\* the variables of the channel, connection and multi-channel models
oldVars == <<connection, registry, chanOpen, chanVars, callers, peerVars, histVars,
             queueVars, srvVars, cliVars, netVars, muxVars, lifeVars, lsnVars>>
oldRest == <<connection, registry, chanOpen, chanVars, callers, peerVars, histVars,
             queueVars, srvVars, cliVars, netVars, muxVars, lifeVars>>
\* everything of the channel but QuicClient.connection
channelSide == <<registry, chanOpen, chanVars, callers, peerVars, histVars, queueVars,
                 muxVars, extVars>>

NoFrame == [t |-> "none", id |-> 0, method |-> PlainMethod(""), kind |-> "none",
            payload |-> NoPayload]
NoStream == [state |-> "none", first |-> NoFrame]

\* a channel not yet opened, a request() not yet called
NoChannel ==
    [name |-> "none", next_id |-> FirstId, pending |-> << >>, is_active |-> FALSE,
     recvLoop |-> "none", wire |-> << >>, first |-> NoFrame, peer |-> "none",
     inbox |-> {}]
NoCall == [ch |-> 0, pc |-> "idle", id |-> 0, rx |-> NoMsg, res |-> "none"]
MuxIdle ==
    /\ mx = [ch \in ChanIds |-> NoChannel]
    /\ mxCallers = [c \in Callers |-> NoCall]

\* ProtocolServer::new: connection_event_tx: Arc::new(RwLock::new(None))
EvtIdle ==
    /\ connection_event_tx = 0
    /\ eventRx = << >>

\* bounds of the byte-level stream
NumWriters == 2
Writers == 1..NumWriters
MaxReads == 3
MaxPeerWrites == 2
MaxSends == 2
NoWrite == [pc |-> "idle", tag |-> 0, data |-> << >>, res |-> "none"]
\* UnisonStream::from_streams at both ends of a new stream
FrmIdle ==
    /\ wire = << >>
    /\ wfin = FALSE
    /\ sender = [is_active |-> TRUE, send_stream |-> TRUE, lock |-> 0]
    /\ writers = [t \in Writers |-> NoWrite]
    /\ sentLog = << >>
    /\ receiver = [is_active |-> TRUE, recv_stream |-> TRUE]
    /\ gotLog = << >>
    /\ sendLog = << >>
    /\ peerWrites = 0
\* ConnectionContext::new, no open_channel yet
LifeIdle ==
    /\ ctxLog = << >>
    /\ COUNTER = 1
    /\ handshakes = << >>
    /\ openLog = << >>
\* ProtocolServer::new: not listening
LsnIdle ==
    /\ running = FALSE
    /\ endpoint = "none"
    /\ shutdown_tx = FALSE
    /\ shutdown_rx = "empty"
    /\ serverTask = "none"
    /\ taskResult = "none"
    /\ listenCall = "none"
    /\ shutdownCall = "none"
    /\ incoming = 0
    /\ arrivals = 0
    /\ handled = 0
    /\ hsFailed = 0
    /\ handledLate = FALSE
ExtIdle == EvtIdle /\ FrmIdle /\ LifeIdle /\ LsnIdle

\* the client is connected to a unison server with the given channel
\* handlers, the identity handshake is over
ConnectedTo(handlers) ==
    /\ serverKind = "unison"
    /\ server_cfg = DefaultConfig
    /\ channel_handlers = handlers
    /\ link = "up"
    /\ srvPc = "accepting"
    /\ \E keys \in KeyOrders(handlers) : srvIdentity = {build_identity(DefaultConfig, keys)}
    /\ idWritten = 1
    /\ connEvents = << >>
    /\ s2cStreams = << >>
    /\ pushed = 0
    /\ cliPc = "connected"
    /\ cliRx = << >>
    /\ response_tasks = "running"
    /\ cliIdentity = srvIdentity
    /\ cstreams = [k \in StreamIds |-> NoStream]
    /\ invocations = << >>

IdleCaller == [pc |-> "idle", id |-> 0, rx |-> NoMsg, res |-> "none", val |-> "none"]
NoOp == [op |-> "none", res |-> "none", msg |-> NoMsg, afterClose |-> FALSE]

Init ==
    /\ connection = "open"
    /\ registry = << >>
    /\ chanOpen = FALSE
    /\ next_id = FirstId
    /\ pending = << >>
    /\ eventq = << >>
    /\ rawq = << >>
    /\ recv_task = FALSE
    /\ recvLoop = "none"
    /\ is_active = FALSE
    /\ send_stream = FALSE
    /\ recv_stream = FALSE
    /\ callers = [c \in Callers |-> IdleCaller]
    /\ peerInbox = {}
    /\ s2c = << >>
    /\ unsolicited = 0
    /\ peerFin = FALSE
    /\ allocOrder = << >>
    /\ closeCount = 0
    /\ lastOp = NoOp
    /\ wireSent = << >>
    /\ evRecvd = << >>
    /\ rawRecvd = << >>
    /\ ConnectedTo({})
    /\ MuxIdle
    /\ ExtIdle


\* ------------------------------------------------------------- helpers
Remove(map, k) == [x \in (DOMAIN map) \ {k} |-> map[x]]
Insert(map, k, v) == [x \in (DOMAIN map) \cup {k} |-> IF x = k THEN v ELSE map[x]]

\* mutant: a value sent to a dropped receiver is handed to the call anyway
SenderSend_Dead(cs, c, msg) == [cs EXCEPT ![c].rx = msg]

\* oneshot::Sender::send: the value reaches the receiver only while the
\* receiver is alive, i.e. while its request() future still holds rx
\* (inserted, or awaiting it); otherwise send returns Err, which the
\* receive loop ignores (let _ = ...).
RxAlive(cs, c) == cs[c].pc \in {"inserted", "waiting"}
SenderSend(cs, c, msg) ==
    IF RxAlive(cs, c) THEN [cs EXCEPT ![c].rx = msg] ELSE cs

\* event_tx / raw_tx are owned by the receive task: they exist while the task
\* has neither finished nor been dropped
SendersAlive == recvLoop \in {"running", "aborting"}

\* --------------------------------------------------- UnisonStream::send_frame
\* and send_raw_frame: the same checks in the same order
SendOutcome ==
    IF ~is_active THEN "not_active"
    ELSE IF ~send_stream THEN "send_closed"
    ELSE IF connection # "open" THEN "write_failed"
    ELSE "ok"

\* ------------------------------------------------ ProtocolClient::open_channel
open_channel(name) ==
    /\ connection = "open"
    /\ ~chanOpen
    /\ registry' = Insert(registry, name,
                          [channel_name |-> name, direction |-> "Bidirectional"])
    /\ chanOpen' = TRUE
    \* UnisonStream::from_streams, UnisonChannel::new
    /\ is_active' = TRUE
    /\ send_stream' = TRUE
    /\ recv_stream' = TRUE
    /\ recv_task' = TRUE
    /\ recvLoop' = "running"
    /\ UNCHANGED <<connection, next_id, pending, eventq, rawq, callers>>
    /\ UNCHANGED <<auxVars, peerVars, histVars>>

\* ------------------------------------------------------ UnisonChannel::request
\* let id = self.next_id.fetch_add(1, Relaxed).  The counter is a u64; the
\* guard keeps it far below the wrap at 2^64.
MaxId == NumCallers + 1
ReqAlloc(c) ==
    /\ chanOpen
    /\ callers[c].pc = "idle"
    \* the calls are numbered in the order they start
    /\ \A d \in Callers : d < c => callers[d].pc # "idle"
    /\ next_id <= MaxId
    /\ callers' = [callers EXCEPT ![c].pc = "alloc", ![c].id = next_id]
    /\ next_id' = next_id + 1
    /\ allocOrder' = Append(allocOrder, next_id)
    /\ UNCHANGED <<pending, eventq, rawq, recv_task, recvLoop, is_active, send_stream,
                   recv_stream, closeCount, lastOp>>
    /\ UNCHANGED <<auxVars, ctxVars, peerVars>>

\* mutant: the Request frame is written before the waiter is installed
ReqInsert_SendsFirst(c) ==
    /\ callers[c].pc = "alloc"
    /\ peerInbox' = peerInbox \cup {callers[c].id}
    /\ callers' = [callers EXCEPT ![c].pc = "inserted"]
    /\ UNCHANGED <<s2c, unsolicited, peerFin>>
    /\ UNCHANGED <<auxVars, ctxVars, chanVars, histVars>>

\* map.insert(id, tx)
ReqInsert(c) ==
    /\ callers[c].pc = "alloc"
    /\ pending' = Insert(pending, callers[c].id, c)
    /\ callers' = [callers EXCEPT ![c].pc = "inserted"]
    /\ UNCHANGED <<next_id, eventq, rawq, recv_task, recvLoop, is_active, send_stream,
                   recv_stream>>
    /\ UNCHANGED <<auxVars, ctxVars, peerVars, histVars>>

\* self.stream.send_frame(&msg).await?  -- on Err the function returns, the
\* entry inserted above stays in the map.  A frame written is read by the peer.
ReqSend(c) ==
    /\ callers[c].pc = "inserted"
    /\ IF SendOutcome = "ok"
       THEN /\ peerInbox' = peerInbox \cup {callers[c].id}
            /\ callers' = [callers EXCEPT ![c].pc = "waiting"]
       ELSE /\ peerInbox' = peerInbox
            /\ callers' = [callers EXCEPT ![c].pc = "done", ![c].res = "SendError",
                                          ![c].val = SendOutcome]
    /\ UNCHANGED <<s2c, unsolicited, peerFin>>
    /\ UNCHANGED <<auxVars, ctxVars, chanVars, histVars>>

\* match response.msg_type { Error => Err("Request error: payload"), _ => payload }
RequestOutcome(msg) ==
    IF from_str(msg.payload) = "parse_error"
    THEN [res |-> "SerializationError", val |-> "none"]
    ELSE IF msg.kind = "Error"
    THEN [res |-> "RequestError", val |-> from_str(msg.payload)]
    ELSE [res |-> "Ok", val |-> from_str(msg.payload)]

\* timeout(self.request_timeout, rx) resolved by the oneshot value
ReqComplete(c) ==
    /\ callers[c].pc = "waiting"
    /\ callers[c].rx # NoMsg
    /\ callers' = [callers EXCEPT ![c].pc = "done",
                                  ![c].res = RequestOutcome(callers[c].rx).res,
                                  ![c].val = RequestOutcome(callers[c].rx).val]
    /\ UNCHANGED <<auxVars, ctxVars, chanVars, peerVars, histVars>>

\* mutant: a timeout closes the stream
ReqTimeout_Closes(c) ==
    /\ callers[c].pc = "waiting"
    /\ callers[c].rx = NoMsg
    /\ callers' = [callers EXCEPT ![c].pc = "done", ![c].res = "Timeout"]
    /\ is_active' = FALSE
    /\ UNCHANGED <<next_id, pending, eventq, rawq, recv_task, recvLoop, send_stream,
                   recv_stream>>
    /\ UNCHANGED <<auxVars, ctxVars, peerVars, histVars>>

\* the timer fires first: .map_err(|_| NetworkError::Timeout)?  -- rx is
\* dropped, nothing else is touched
ReqTimeout(c) ==
    /\ callers[c].pc = "waiting"
    /\ callers[c].rx = NoMsg
    /\ callers' = [callers EXCEPT ![c].pc = "done", ![c].res = "Timeout"]
    /\ UNCHANGED <<auxVars, ctxVars, chanVars, peerVars, histVars>>

\* the request() future is dropped while it awaits the response: rx is
\* dropped with it (and any value in it); there is no Drop guard on the
\* pending entry
ReqDrop(c) ==
    /\ callers[c].pc = "waiting"
    /\ callers' = [callers EXCEPT ![c].pc = "done", ![c].res = "Dropped", ![c].rx = NoMsg]
    /\ UNCHANGED <<auxVars, ctxVars, chanVars, peerVars, histVars>>

\* ------------------------------------------- UnisonChannel::new, receive loop
\* Each arm maps (pending, callers, eventq, rawq) to their next values.
Routed(p, cs, eq, rq) == [pending |-> p, callers |-> cs, eventq |-> eq, rawq |-> rq]

\* mutant: the response goes to the waiter of the lowest pending id
ResponseArm_AnyWaiter(msg) ==
    IF msg.id \in DOMAIN pending
    THEN LET k == CHOOSE x \in DOMAIN pending : \A y \in DOMAIN pending : x <= y
         IN Routed(Remove(pending, k), SenderSend(callers, pending[k], msg), eventq, rawq)
    ELSE Routed(pending, callers, eventq, rawq)

\* mutant: a Response nobody waits for is queued as an event
ResponseArm_Queues(msg) ==
    IF msg.id \in DOMAIN pending
    THEN Routed(Remove(pending, msg.id), SenderSend(callers, pending[msg.id], msg),
                eventq, rawq)
    ELSE Routed(pending, callers, Append(eventq, msg), rawq)

\* MessageType::Response => if let Some(sender) = map.remove(&msg.id) { sender.send(msg) }
ResponseArm(msg) ==
    IF msg.id \in DOMAIN pending
    THEN Routed(Remove(pending, msg.id), SenderSend(callers, pending[msg.id], msg),
                eventq, rawq)
    ELSE Routed(pending, callers, eventq, rawq)

\* MessageType::Error => same, else event_tx.send(msg)
\* mutant: an Error without a waiter is dropped like a Response
ErrorArm_AsResponse(msg) == ResponseArm(msg)

ErrorArm(msg) ==
    IF msg.id \in DOMAIN pending
    THEN Routed(Remove(pending, msg.id), SenderSend(callers, pending[msg.id], msg),
                eventq, rawq)
    ELSE Routed(pending, callers, Append(eventq, msg), rawq)

\* mutant: the message jumps the queue
OtherArm_Prepend(msg) == Routed(pending, callers, <<msg>> \o eventq, rawq)

\* _ => event_tx.send(msg)
OtherArm(msg) == Routed(pending, callers, Append(eventq, msg), rawq)

\* mutant: raw bytes are queued twice
RawArm_Twice(msg) == Routed(pending, callers, eventq, rawq \o <<msg.payload, msg.payload>>)

\* Ok(TypedFrame::Raw(data)) => raw_tx.send(data)
RawArm(msg) == Routed(pending, callers, eventq, Append(rawq, msg.payload))

Route(msg) ==
    IF msg.t = "raw" THEN RawArm(msg)
    ELSE IF msg.kind = "Response" THEN ResponseArm(msg)
    ELSE IF msg.kind = "Error" THEN ErrorArm(msg)
    ELSE OtherArm(msg)

\* mutant: the queues have no bound
PushBlocked_Never(msg) == FALSE

\* mpsc::Sender::send awaits while the buffer is full
PushBlocked(msg) ==
    \/ /\ msg.t = "raw"
       /\ Len(rawq) >= QueueCapacity
    \/ /\ msg.t = "proto"
       /\ \/ msg.kind \in {"Request", "Event"}
          \/ msg.kind = "Error" /\ msg.id \notin DOMAIN pending
       /\ Len(eventq) >= QueueCapacity

\* Err(_) => for (_, sender) in map.drain() { sender.send(new_with_json(0, "error",
\* Error, {"error": "connection closed"})) }; break
ConnectionClosedMsg == new_with_json(0, "Error", "connection closed")

RECURSIVE DrainInto(_, _)
DrainInto(cs, ids) ==
    IF ids = {} THEN cs
    ELSE LET id == CHOOSE x \in ids : TRUE
         IN DrainInto(SenderSend(cs, pending[id], ConnectionClosedMsg), ids \ {id})

\* mutant: the loop exits without resolving the waiters
ErrArm_NoDrain == Routed(pending, callers, eventq, rawq)

ErrArm == Routed(<< >>, DrainInto(callers, DOMAIN pending), eventq, rawq)

\* what recv_typed_frame finds on the stream
FrameReady == s2c # << >>
NextFrame == Head(s2c)
\* read_typed_frame fails: EOF after the last frame, or the connection is gone
ReadFails == ~FrameReady /\ (peerFin \/ connection # "open")

\* one iteration that reads a frame and routes it
RecvLoopFrame ==
    /\ recvLoop = "running"
    /\ is_active /\ recv_stream
    /\ FrameReady
    /\ NextFrame.t \in {"proto", "raw"}
    /\ ~PushBlocked(NextFrame)
    /\ pending' = Route(NextFrame).pending
    /\ callers' = Route(NextFrame).callers
    /\ eventq' = Route(NextFrame).eventq
    /\ rawq' = Route(NextFrame).rawq
    /\ s2c' = Tail(s2c)
    /\ UNCHANGED <<next_id, recv_task, recvLoop, is_active, send_stream, recv_stream>>
    /\ UNCHANGED <<peerInbox, unsolicited, peerFin>>
    /\ UNCHANGED <<auxVars, ctxVars, histVars>>

\* one iteration in which recv_typed_frame returns Err: stream not active,
\* receive half released, read failure (sets is_active = false), frame that is
\* no ProtocolFrame, unknown type tag (the last two leave is_active alone)
RecvLoopErr ==
    /\ recvLoop \in {"running", "aborting"}
    /\ \/ /\ ~is_active \/ ~recv_stream
          /\ UNCHANGED <<is_active, s2c>>
       \/ /\ is_active /\ recv_stream
          /\ ReadFails
          /\ is_active' = FALSE
          /\ UNCHANGED s2c
       \/ /\ is_active /\ recv_stream
          /\ FrameReady
          /\ NextFrame.t \in {"undecodable", "badtag"}
          /\ s2c' = Tail(s2c)
          /\ UNCHANGED is_active
    /\ pending' = ErrArm.pending
    /\ callers' = ErrArm.callers
    /\ recvLoop' = "exited"
    /\ UNCHANGED <<next_id, eventq, rawq, recv_task, send_stream, recv_stream>>
    /\ UNCHANGED <<peerInbox, unsolicited, peerFin>>
    /\ UNCHANGED <<auxVars, ctxVars, histVars>>

\* JoinHandle::abort takes effect: the task is dropped at an await point,
\* and with it event_tx, raw_tx and its clones of stream and pending
RecvLoopAborted ==
    /\ recvLoop = "aborting"
    /\ recvLoop' = "aborted"
    /\ UNCHANGED <<next_id, pending, eventq, rawq, recv_task, is_active, send_stream,
                   recv_stream, callers>>
    /\ UNCHANGED <<auxVars, ctxVars, peerVars, histVars>>

\* --------------------------------------- send_event / send_response / send_raw
\* A frame written is read by the peer, which keeps nothing of an Event, a
\* Response or raw bytes.
ApiReturn(op, res, msg) == [op |-> op, res |-> res, msg |-> msg, afterClose |-> closeCount > 0]

ApiSend(op) ==
    /\ chanOpen
    /\ lastOp' = ApiReturn(op, IF SendOutcome = "ok" THEN "Ok" ELSE "Err", NoMsg)
    /\ UNCHANGED <<allocOrder, closeCount, callers>>
    /\ UNCHANGED <<auxVars, ctxVars, chanVars, peerVars>>

send_event == ApiSend("send_event")
send_response == ApiSend("send_response")
send_raw == ApiSend("send_raw")

\* ------------------------------------------------------------ recv / recv_raw
\* mpsc::Receiver::recv: the oldest buffered item; None only when the buffer
\* is empty and every sender is gone; otherwise it waits
event_rx_recv ==
    /\ chanOpen
    /\ \/ /\ eventq # << >>
          /\ eventq' = Tail(eventq)
          /\ lastOp' = ApiReturn("recv", "Ok", Head(eventq))
       \/ /\ eventq = << >>
          /\ ~SendersAlive
          /\ eventq' = eventq
          /\ lastOp' = ApiReturn("recv", "Err", NoMsg)
    /\ UNCHANGED <<next_id, pending, rawq, recv_task, recvLoop, is_active, send_stream,
                   recv_stream, callers, allocOrder, closeCount>>
    /\ UNCHANGED <<ctxVars, peerVars>>

recv ==
    /\ event_rx_recv
    /\ UNCHANGED auxVars

raw_rx_recv ==
    /\ chanOpen
    /\ \/ /\ rawq # << >>
          /\ rawq' = Tail(rawq)
          /\ lastOp' = ApiReturn("recv_raw", "Ok", Frame("raw", "none", 0, Head(rawq)))
       \/ /\ rawq = << >>
          /\ ~SendersAlive
          /\ rawq' = rawq
          /\ lastOp' = ApiReturn("recv_raw", "Err", NoMsg)
    /\ UNCHANGED <<next_id, pending, eventq, recv_task, recvLoop, is_active, send_stream,
                   recv_stream, callers, allocOrder, closeCount>>
    /\ UNCHANGED <<ctxVars, peerVars>>

recv_raw ==
    /\ raw_rx_recv
    /\ UNCHANGED auxVars

\* ---------------------------------- UnisonChannel::close, UnisonStream::close_stream
\* recv_task.take() -> abort(); then is_active = false, send_stream.take() ->
\* finish(), recv_stream.take() -> stop(0).  A task parked in its read is
\* dropped before close_stream obtains the receive half ("aborted"); a task in
\* the middle of a poll runs on to its next await ("aborting").  finish() is
\* called at most once per stream and succeeds; stop() reports ClosedStream
\* when the receive side had already ended, which close() returns as Err.
AbortOutcomes == {"aborted", "aborting"}

\* mutant: closing a stream whose halves are already released is an error
close_stream_AlreadyClosed == IF ~send_stream /\ ~recv_stream THEN {"Err"} ELSE {"Ok"}

\* what close_stream can return: Ok, or the Err of stop() on a receive half
\* that is still held but whose stream has already ended
close_stream ==
    {"Ok"} \cup (IF recv_stream /\ recvLoop = "exited" /\ ~is_active THEN {"Err"} ELSE {})

close ==
    /\ chanOpen
    /\ closeCount < MaxCloses
    /\ recv_task' = FALSE
    /\ IF recv_task /\ recvLoop = "running"
       THEN recvLoop' \in AbortOutcomes
       ELSE recvLoop' = recvLoop
    /\ is_active' = FALSE
    /\ send_stream' = FALSE
    /\ recv_stream' = FALSE
    /\ \E res \in close_stream : lastOp' = ApiReturn("close", res, NoMsg)
    /\ closeCount' = closeCount + 1
    /\ UNCHANGED <<next_id, pending, eventq, rawq, callers, allocOrder>>
    /\ UNCHANGED <<auxVars, ctxVars, peerVars>>

\* ------------------------------------------------- ConnectionContext queries
\* Option<ChannelHandle> as a set of at most one handle: None is {}
get_channel(name) == IF name \in DOMAIN registry THEN {registry[name]} ELSE {}
channel_names == DOMAIN registry

\* ------------------------------------------------------------------ the peer
\* The peer answers a Request it has read with a Response carrying the same
\* id and a payload of its choice, in any order or never ...
PeerRespond(id, text) ==
    /\ id \in peerInbox
    /\ ~peerFin
    /\ Len(s2c) < MaxInFlight
    /\ s2c' = Append(s2c, Frame("proto", "Response", id, text))
    /\ peerInbox' = peerInbox \ {id}
    /\ UNCHANGED <<unsolicited, peerFin, callers>>
    /\ UNCHANGED <<auxVars, ctxVars, chanVars, histVars>>

\* ... and may write any other frame
UnsolicitedFrames ==
    {Frame("proto", k, id, to_string("a")) : k \in {"Response", "Error"}, id \in 0..1}
    \cup {Frame("proto", "Event", 0, to_string("a")),
          Frame("proto", "Request", 1, to_string("a")),
          Frame("proto", "Response", 1, NotJson),
          Frame("raw", "none", 0, RawBytes),
          Frame("undecodable", "none", 0, NoPayload),
          Frame("badtag", "none", 0, NoPayload)}

PeerSend(f) ==
    /\ chanOpen
    /\ ~peerFin
    /\ unsolicited < MaxUnsolicited
    /\ Len(s2c) < MaxInFlight
    /\ unsolicited' = unsolicited + 1
    /\ s2c' = Append(s2c, f)
    /\ UNCHANGED <<peerInbox, peerFin, callers>>
    /\ UNCHANGED <<auxVars, ctxVars, chanVars, histVars>>

\* the peer finishes its send side: EOF after the frames already written
PeerFinish ==
    /\ chanOpen
    /\ ~peerFin
    /\ peerFin' = TRUE
    /\ UNCHANGED <<peerInbox, s2c, unsolicited, callers>>
    /\ UNCHANGED <<auxVars, ctxVars, chanVars, histVars>>

Next ==
    \/ \E n \in ChannelNames : open_channel(n)
    \/ \E c \in Callers : ReqAlloc(c)
    \/ \E c \in Callers : ReqInsert(c)
    \/ \E c \in Callers : ReqSend(c)
    \/ \E c \in Callers : ReqComplete(c)
    \/ \E c \in Callers : ReqTimeout(c)
    \/ \E c \in Callers : ReqDrop(c)
    \/ RecvLoopFrame
    \/ RecvLoopErr
    \/ RecvLoopAborted
    \/ send_event
    \/ send_response
    \/ send_raw
    \/ recv
    \/ recv_raw
    \/ close
    \/ \E id \in 1..MaxId, text \in PeerTexts : PeerRespond(id, text)
    \/ \E f \in UnsolicitedFrames : PeerSend(f)
    \/ PeerFinish

Spec == Init /\ [][Next]_vars

\* =================================================================== claims

\* C1: request correlation.  A request() that is still waiting keeps its own
\* entry in the pending map; a frame delivered to a caller carries that
\* caller's own id (or is the synthesized connection-closed error, id 0), so
\* no caller receives another caller's response; and a caller that returns Ok
\* returns the decoded payload of the Response the peer wrote with its id.
C1_Correlation ==
    \A c \in Callers :
        /\ (RxAlive(callers, c) /\ callers[c].rx = NoMsg)
              => (callers[c].id \in DOMAIN pending /\ pending[callers[c].id] = c)
        /\ callers[c].rx # NoMsg
              => \/ callers[c].rx.id = callers[c].id
                 \/ callers[c].rx = ConnectionClosedMsg
        /\ callers[c].res = "Ok"
              => /\ callers[c].rx.kind = "Response"
                 /\ callers[c].rx.id = callers[c].id
                 /\ callers[c].val = from_str(callers[c].rx.payload)

\* the second call got its answer while the first, sent earlier, still waits
C1_Witness ==
    /\ callers[1].pc = "waiting" /\ callers[1].rx = NoMsg
    /\ 1 \in peerInbox
    /\ callers[2].res = "Ok" /\ callers[2].val = "b"

\* C2: request ids start at 1, are handed out strictly increasing, are
\* pairwise distinct over the calls, and the key 0 is never in the pending map.
C2_IdsMonotonic ==
    /\ Len(allocOrder) > 0 => allocOrder[1] = 1
    /\ \A i, j \in 1..Len(allocOrder) : i < j => allocOrder[i] < allocOrder[j]
    /\ \A c, d \in Callers :
          (c # d /\ callers[c].pc # "idle" /\ callers[d].pc # "idle")
              => callers[c].id # callers[d].id
    /\ \A c \in Callers : callers[c].pc # "idle" => callers[c].id >= 1
    /\ 0 \notin DOMAIN pending

\* two calls in flight at once, both entries in the map
C2_Witness ==
    /\ Len(allocOrder) = NumCallers
    /\ Cardinality(DOMAIN pending) = NumCallers
    /\ \A c \in Callers : callers[c].pc = "waiting"

\* ------------------------------------------------- events and raw frames
\* The peer pushes events, requests and raw bytes through the same calls on
\* its end of the stream: send_event / send_response build a ProtocolMessage
\* and write it with tag 0x00, send_raw writes the bytes with tag 0x01.
send_raw_frame(data) == Frame("raw", "none", 0, data)

QueueFrames ==
    {new_with_json(0, "Event", "a"), new_with_json(1, "Request", "b"),
     send_raw_frame(RawBytes), send_raw_frame(OtherBytes)}

PeerPush(f) ==
    /\ chanOpen
    /\ ~peerFin
    /\ Len(wireSent) < MaxQueued
    /\ Len(s2c) < MaxWire
    /\ s2c' = Append(s2c, f)
    /\ wireSent' = Append(wireSent, f)
    /\ UNCHANGED <<peerInbox, unsolicited, peerFin, callers, evRecvd, rawRecvd>>
    /\ UNCHANGED <<envVars, ctxVars, chanVars, histVars>>

\* recv() and recv_raw() with what they returned kept in the history
RecvLogged ==
    /\ event_rx_recv
    /\ evRecvd' = IF lastOp'.res = "Ok" THEN Append(evRecvd, lastOp'.msg) ELSE evRecvd
    /\ UNCHANGED <<wireSent, rawRecvd, envVars>>

RecvRawLogged ==
    /\ raw_rx_recv
    /\ rawRecvd' = IF lastOp'.res = "Ok" THEN Append(rawRecvd, lastOp'.msg.payload)
                                        ELSE rawRecvd
    /\ UNCHANGED <<wireSent, evRecvd, envVars>>

QueueNext ==
    \/ \E n \in ChannelNames : open_channel(n)
    \/ \E c \in Callers : ReqAlloc(c)
    \/ \E c \in Callers : ReqInsert(c)
    \/ \E c \in Callers : ReqSend(c)
    \/ \E c \in Callers : ReqTimeout(c)
    \/ \E f \in QueueFrames : PeerPush(f)
    \/ PeerFinish
    \/ RecvLoopFrame
    \/ RecvLoopErr
    \/ RecvLogged
    \/ RecvRawLogged

QueueSpec == Init /\ [][QueueNext]_vars

\* ------------------------------------------- connection set-up, both sides
\* What can be read first on a stream besides a decodable ProtocolMessage:
\* a raw-tagged frame, a frame with another tag, bytes that decode to no
\* ProtocolMessage, or nothing at all (the read fails).
OtherFrame(t) == [NoFrame EXCEPT !.t = t]

ConnInit ==
    /\ connection = "none"
    /\ registry = << >> /\ chanOpen = FALSE
    /\ next_id = FirstId /\ pending = << >> /\ eventq = << >> /\ rawq = << >>
    /\ recv_task = FALSE /\ recvLoop = "none"
    /\ is_active = FALSE /\ send_stream = FALSE /\ recv_stream = FALSE
    /\ callers = [c \in Callers |-> IdleCaller]
    /\ peerInbox = {} /\ s2c = << >> /\ unsolicited = 0 /\ peerFin = FALSE
    /\ allocOrder = << >> /\ closeCount = 0 /\ lastOp = NoOp
    /\ wireSent = << >> /\ evRecvd = << >> /\ rawRecvd = << >>
    /\ serverKind \in {"unison", "other"}
    /\ server_cfg \in ServerConfigs
    /\ channel_handlers = {}
    /\ link = "none"
    /\ srvPc = "listening"
    /\ srvIdentity = {}
    /\ idWritten = 0
    /\ connEvents = << >>
    /\ s2cStreams = << >>
    /\ pushed = 0
    /\ cliPc = "idle"
    /\ cliRx = << >>
    /\ response_tasks = "none"
    /\ cliIdentity = {}
    /\ cstreams = [k \in StreamIds |-> NoStream]
    /\ invocations = << >>
    /\ MuxIdle
    /\ ExtIdle

\* ProtocolServer::register_channel
register_channel(name) ==
    /\ serverKind = "unison"
    /\ channel_handlers' = channel_handlers \cup {name}
    /\ UNCHANGED <<serverKind, server_cfg, srvPc, srvIdentity, idWritten, connEvents,
                   cstreams, invocations>>
    /\ UNCHANGED <<cliVars, netVars, connection, channelSide>>

\* QuicClient::connect: the QUIC handshake completes, the connection is
\* stored and client_accept_bi_loop is spawned; on the server the listen loop
\* spawns handle_connection with a new ConnectionContext.  connect() goes on
\* to receive_identity.
QuicConnect ==
    /\ cliPc = "idle"
    /\ link = "none"
    /\ link' = "up"
    /\ connection' = "open"
    /\ cliPc' = "receive_identity"
    /\ response_tasks' = "running"
    /\ srvPc' = IF serverKind = "unison" THEN "start" ELSE srvPc
    /\ UNCHANGED <<serverKind, server_cfg, channel_handlers, srvIdentity, idWritten,
                   connEvents, cstreams, invocations>>
    /\ UNCHANGED <<cliRx, cliIdentity, s2cStreams, pushed, channelSide>>

\* the connection is lost
LinkDown ==
    /\ link = "up"
    /\ link' = "down"
    /\ UNCHANGED <<srvVars, cliVars, s2cStreams, pushed, connection, channelSide>>

\* handle_connection: let identity = server.build_identity().await;
\* ctx.set_identity(identity.clone()).await
BuildIdentity ==
    /\ srvPc = "start"
    /\ \E keys \in KeyOrders(channel_handlers) :
          srvIdentity' = {build_identity(server_cfg, keys)}
    /\ srvPc' = "open_bi"
    /\ UNCHANGED <<serverKind, server_cfg, channel_handlers, idWritten, connEvents,
                   cstreams, invocations>>
    /\ UNCHANGED <<cliVars, netVars, connection, channelSide>>

\* connection.open_bi().await: Err on a lost connection
OpenIdentityStream ==
    /\ srvPc = "open_bi"
    /\ srvPc' = IF link = "up" THEN "write" ELSE "emit"
    /\ UNCHANGED <<serverKind, server_cfg, channel_handlers, srvIdentity, idWritten,
                   connEvents, cstreams, invocations>>
    /\ UNCHANGED <<cliVars, netVars, connection, channelSide>>

\* mutant: the identity goes out on two streams
WriteIdentity_Twice ==
    /\ srvPc = "write"
    /\ srvPc' = "emit"
    /\ \E identity \in srvIdentity :
          s2cStreams' = s2cStreams \o <<to_protocol_message(identity),
                                        to_protocol_message(identity)>>
    /\ idWritten' = idWritten + 2
    /\ UNCHANGED <<serverKind, server_cfg, channel_handlers, srvIdentity, connEvents,
                   cstreams, invocations>>
    /\ UNCHANGED <<cliVars, link, pushed, connection, channelSide>>

\* write_typed_frame(&mut send_stream, FRAME_TYPE_PROTOCOL, &frame_bytes), then
\* send_stream.finish(); a failed write is logged
WriteIdentity ==
    /\ srvPc = "write"
    /\ srvPc' = "emit"
    /\ IF link = "up"
       THEN /\ \E identity \in srvIdentity :
                  s2cStreams' = Append(s2cStreams, to_protocol_message(identity))
            /\ idWritten' = idWritten + 1
       ELSE UNCHANGED <<s2cStreams, idWritten>>
    /\ UNCHANGED <<serverKind, server_cfg, channel_handlers, srvIdentity, connEvents,
                   cstreams, invocations>>
    /\ UNCHANGED <<cliVars, link, pushed, connection, channelSide>>

\* server.emit_connection_event(Connected { .. });  -- the call builds the
\* future of an async fn and drops it without awaiting it: its body, the
\* send to the subscriber, never runs
EmitConnected ==
    /\ srvPc = "emit"
    /\ srvPc' = "accepting"
    /\ connEvents' = connEvents
    /\ UNCHANGED <<serverKind, server_cfg, channel_handlers, srvIdentity, idWritten,
                   cstreams, invocations>>
    /\ UNCHANGED <<cliVars, netVars, connection, channelSide>>

\* first frames a client can put on a stream it opens
HandshakeFrames ==
    {Message(1, ChannelMethod(n), "Request", to_string("empty")) : n \in HandlerNames}
    \cup {Message(1, PlainMethod("ping"), "Request", to_string("empty"))}
    \cup {OtherFrame(t) : t \in {"raw", "badtag", "undecodable", "unreadable"}}

\* the client opens its next stream and writes, or fails to write, a first frame
ClientStream(k, f) ==
    /\ link = "up"
    /\ cstreams[k].state = "none"
    /\ \A j \in StreamIds : j < k => cstreams[j].state # "none"
    /\ cstreams' = [cstreams EXCEPT ![k] = [state |-> "opened", first |-> f]]
    /\ UNCHANGED <<serverKind, server_cfg, channel_handlers, srvPc, srvIdentity, idWritten,
                   connEvents, invocations>>
    /\ UNCHANGED <<cliVars, netVars, connection, channelSide>>

\* handle_connection's loop: connection.accept_bi().await => Ok: one task is
\* spawned for the stream
AcceptBi(k) ==
    /\ srvPc = "accepting"
    /\ cstreams[k].state = "opened"
    /\ \A j \in StreamIds : j < k => cstreams[j].state # "opened"
    /\ cstreams' = [cstreams EXCEPT ![k].state = "accepted"]
    /\ UNCHANGED <<serverKind, server_cfg, channel_handlers, srvPc, srvIdentity, idWritten,
                   connEvents, invocations>>
    /\ UNCHANGED <<cliVars, netVars, connection, channelSide>>

\* accept_bi => Err: emit_connection_event(Disconnected) is called, never
\* awaited; break
AcceptFails ==
    /\ srvPc = "accepting"
    /\ link = "down"
    /\ \A k \in StreamIds : cstreams[k].state # "opened"
    /\ srvPc' = "ended"
    /\ connEvents' = connEvents
    /\ UNCHANGED <<serverKind, server_cfg, channel_handlers, srvIdentity, idWritten,
                   cstreams, invocations>>
    /\ UNCHANGED <<cliVars, netVars, connection, channelSide>>

\* mutant: the prefix is not required
Dispatch_AnyMethod(first, handlers) ==
    IF first.t # "proto" THEN {} ELSE {first.method[2]} \cap handlers

\* The per-stream task: the handler names it invokes for a first frame.
\* read_typed_frame must yield tag 0x00 and a decodable ProtocolMessage, its
\* method must carry the prefix, get_channel_handler must know the rest.
Dispatch(first, handlers) ==
    IF first.t # "proto" THEN {}
    ELSE {n \in strip_prefix(first.method) : n \in handlers}

\* the spawned task reads the handshake frame and either calls
\* handler(ctx, stream) or returns, which drops both halves of the stream
ReadHandshake(k) ==
    /\ cstreams[k].state = "accepted"
    /\ LET names == Dispatch(cstreams[k].first, channel_handlers)
       IN IF names = {}
          THEN /\ cstreams' = [cstreams EXCEPT ![k].state = "closed"]
               /\ invocations' = invocations
          ELSE /\ cstreams' = [cstreams EXCEPT ![k].state = "handler"]
               /\ \E n \in names :
                     invocations' = Append(invocations,
                                           [handler |-> n, ctx |-> srvIdentity, stream |-> k])
    /\ UNCHANGED <<serverKind, server_cfg, channel_handlers, srvPc, srvIdentity, idWritten,
                   connEvents>>
    /\ UNCHANGED <<cliVars, netVars, connection, channelSide>>

\* handler(ctx, stream).await returns; the task ends and the stream with it
HandlerReturns(k) ==
    /\ cstreams[k].state = "handler"
    /\ cstreams' = [cstreams EXCEPT ![k].state = "closed"]
    /\ UNCHANGED <<serverKind, server_cfg, channel_handlers, srvPc, srvIdentity, idWritten,
                   connEvents, invocations>>
    /\ UNCHANGED <<cliVars, netVars, connection, channelSide>>

\* a server that is not this one opens a stream with some first frame
ForeignFrames ==
    {Message(0, PlainMethod("hello"), "Event", to_string("a")),
     OtherFrame("raw"), OtherFrame("undecodable")}

PeerOpenStream(f) ==
    /\ serverKind = "other"
    /\ link = "up"
    /\ pushed < MaxPushed
    /\ pushed' = pushed + 1
    /\ s2cStreams' = Append(s2cStreams, f)
    /\ UNCHANGED <<srvVars, cliVars, link, connection, channelSide>>

\* client_accept_bi_loop: accept_bi, then a task per stream reads one typed
\* frame; a decodable 0x00 frame is sent to tx, anything else is logged
AcceptLoopRead(i) ==
    /\ response_tasks = "running"
    /\ i \in 1..Len(s2cStreams)
    /\ s2cStreams' = [j \in 1..(Len(s2cStreams) - 1) |->
                          IF j < i THEN s2cStreams[j] ELSE s2cStreams[j + 1]]
    /\ cliRx' = IF s2cStreams[i].t = "proto" THEN Append(cliRx, s2cStreams[i]) ELSE cliRx
    /\ UNCHANGED <<srvVars, cliPc, response_tasks, cliIdentity, link, pushed, connection,
                   channelSide>>

\* ProtocolClient::receive_identity inside connect(): transport.receive()
\* waits for a message (QuicClient keeps a sender, so the queue never
\* closes); an __identity message that parses is stored; any outcome is
\* logged and connect() returns Ok
ReceiveIdentity ==
    /\ cliPc = "receive_identity"
    /\ cliRx # << >>
    /\ cliRx' = Tail(cliRx)
    /\ cliIdentity' = IF Head(cliRx).method = IdentityMethod
                       THEN from_protocol_message(Head(cliRx))
                       ELSE cliIdentity
    /\ cliPc' = "connected"
    /\ UNCHANGED <<srvVars, netVars, response_tasks, connection, channelSide>>

\* open_channel needs &self of a client whose connect(&mut self) has returned
ClientOpenChannel(name) ==
    /\ cliPc = "connected"
    /\ open_channel(name)

ConnNext ==
    \/ \E n \in HandlerNames : register_channel(n)
    \/ QuicConnect
    \/ LinkDown
    \/ BuildIdentity
    \/ OpenIdentityStream
    \/ WriteIdentity
    \/ EmitConnected
    \/ \E k \in StreamIds, f \in HandshakeFrames : ClientStream(k, f)
    \/ \E k \in StreamIds : AcceptBi(k)
    \/ AcceptFails
    \/ \E k \in StreamIds : ReadHandshake(k)
    \/ \E k \in StreamIds : HandlerReturns(k)
    \/ \E f \in ForeignFrames : PeerOpenStream(f)
    \/ \E i \in 1..MaxStreams : AcceptLoopRead(i)
    \/ ReceiveIdentity
    \/ \E n \in ChannelNames : ClientOpenChannel(n)

ConnSpec == ConnInit /\ [][ConnNext]_vars

\* handle_connection, the per-stream tasks, client_accept_bi_loop and
\* connect() are tasks that run whenever they can; the connection may be lost
\* at any time and the other end is under no obligation
ConnFairSpec ==
    /\ ConnSpec
    /\ WF_vars(BuildIdentity)
    /\ WF_vars(OpenIdentityStream)
    /\ WF_vars(WriteIdentity)
    /\ WF_vars(EmitConnected)
    /\ WF_vars(\E i \in 1..MaxStreams : AcceptLoopRead(i))
    /\ WF_vars(ReceiveIdentity)

\* ------------------------------------------------------------ typed frames
\* Bytes on a stream are kept run-length encoded, a sequence of runs of n
\* equal bytes b with no empty run and no two neighbours of the same byte, so
\* that a payload of megabytes is one run.
Run(b, n) == [b |-> b, n |-> n]
RECURSIVE Norm(_)
Norm(s) ==
    IF s = << >> THEN << >>
    ELSE IF Head(s).n = 0 THEN Norm(Tail(s))
    ELSE LET rest == Norm(Tail(s))
         IN IF rest # << >> /\ Head(rest).b = Head(s).b
            THEN <<Run(Head(s).b, Head(s).n + Head(rest).n)>> \o Tail(rest)
            ELSE <<Head(s)>> \o rest
Cat(a, b) == Norm(a \o b)
Bytes(seq) == Norm([i \in DOMAIN seq |-> Run(seq[i], 1)])
RECURSIVE ByteLen(_)
ByteLen(s) == IF s = << >> THEN 0 ELSE Head(s).n + ByteLen(Tail(s))
RECURSIVE Take(_, _)
Take(s, k) ==
    IF k = 0 \/ s = << >> THEN << >>
    ELSE IF Head(s).n <= k THEN <<Head(s)>> \o Take(Tail(s), k - Head(s).n)
    ELSE <<Run(Head(s).b, k)>>
RECURSIVE Drop(_, _)
Drop(s, k) ==
    IF k = 0 \/ s = << >> THEN s
    ELSE IF Head(s).n <= k THEN Drop(Tail(s), k - Head(s).n)
    ELSE <<Run(Head(s).b, Head(s).n - k)>> \o Tail(s)
\* the byte at position i, from 1
ByteAt(s, i) == Head(Drop(s, i - 1)).b

\* const MAX_MESSAGE_SIZE: usize = 8 * 1024 * 1024
MAX_MESSAGE_SIZE == 8388608
FRAME_TYPE_PROTOCOL == 0
FRAME_TYPE_RAW == 1

\* A u32 is kept as its two 16-bit halves <<high, low>>.
\* `x as u32` of a usize x
as_u32(x) == <<(x \div 65536) % 65536, x % 65536>>
\* u32::to_be_bytes
to_be_bytes(u) == <<u[1] \div 256, u[1] % 256, u[2] \div 256, u[2] % 256>>
\* u32::from_be_bytes
from_be_bytes(b) == <<b[1] * 256 + b[2], b[3] * 256 + b[4]>>
\* u == 0, u > x and `u as usize` (of a u that is not above MAX_MESSAGE_SIZE)
IsZero(u) == u[1] = 0 /\ u[2] = 0
Above(u, x) == u[1] > x \div 65536 \/ (u[1] = x \div 65536 /\ u[2] > x % 65536)
as_usize(u) == u[1] * 65536 + u[2]

\* mutant: the length written is that of the payload alone
FramePieces_LenOfData(frame_type, data) ==
    <<Bytes(to_be_bytes(as_u32(ByteLen(data)))), Bytes(<<frame_type>>), data>>

\* write_typed_frame: what its three write_all calls put on the stream
FramePieces(frame_type, data) ==
    <<Bytes(to_be_bytes(as_u32(1 + ByteLen(data)))), Bytes(<<frame_type>>), data>>
write_typed_frame(frame_type, data) ==
    Cat(Cat(FramePieces(frame_type, data)[1], FramePieces(frame_type, data)[2]),
        FramePieces(frame_type, data)[3])

\* write_frame: [len][data]
write_frame(data) == Cat(Bytes(to_be_bytes(as_u32(ByteLen(data)))), data)

\* read_exact of k bytes at offset `at` of what the stream holds: it has them
\* ("ok"), or the stream ended before ("eof"), or it goes on waiting ("wait")
ReadExact(w, fin, at, k) ==
    IF ByteLen(w) >= at + k THEN "ok" ELSE IF fin THEN "eof" ELSE "wait"

Failed(err, rest) == [st |-> "err", err |-> err, tag |-> 0, payload |-> << >>, rest |-> rest]
Waiting(w) == [st |-> "wait", err |-> "none", tag |-> 0, payload |-> << >>, rest |-> w]

\* read_typed_frame on a stream holding the bytes w, finished or not: what
\* it returns and what it leaves unread
read_typed_frame(w, fin) ==
    IF ReadExact(w, fin, 0, 4) = "wait" THEN Waiting(w)
    ELSE IF ReadExact(w, fin, 0, 4) = "eof" THEN Failed("Failed to read frame length", << >>)
    ELSE LET total_len == from_be_bytes([i \in 1..4 |-> ByteAt(w, i)])
         IN IF IsZero(total_len) THEN Failed("Empty frame", Drop(w, 4))
            ELSE IF Above(total_len, MAX_MESSAGE_SIZE)
            THEN Failed("Frame too large", Drop(w, 4))
            ELSE IF ReadExact(w, fin, 4, 1) = "wait" THEN Waiting(w)
            ELSE IF ReadExact(w, fin, 4, 1) = "eof"
            THEN Failed("Failed to read frame type tag", << >>)
            ELSE LET payload_len == as_usize(total_len) - 1
                 IN IF ReadExact(w, fin, 5, payload_len) = "wait" THEN Waiting(w)
                    ELSE IF ReadExact(w, fin, 5, payload_len) = "eof"
                    THEN Failed("Failed to read frame payload", << >>)
                    ELSE [st |-> "ok", err |-> "none", tag |-> ByteAt(w, 5),
                          payload |-> Take(Drop(w, 5), payload_len),
                          rest |-> Drop(w, 5 + payload_len)]

\* ------------------------------------------- one stream, byte by byte
\* payloads handed to send_raw_frame: none, one that reads like a length
\* prefix, the longest the reader accepts and one byte more
Payloads ==
    {<< >>, Bytes(<<0, 0, 0, 1>>), <<Run(0, MAX_MESSAGE_SIZE - 1)>>,
     <<Run(0, MAX_MESSAGE_SIZE)>>}
\* frame.to_bytes() of the messages handed to send_frame
ProtoPayloads == {Bytes(<<7>>), Bytes(<<0, 0, 0, 2, 1>>)}
\* ProtocolFrame::from_bytes and ProtocolMessage::from_frame succeed on the
\* bytes of a message; they fail at least on no bytes at all
Decodable(payload) == payload \in ProtoPayloads

\* send_frame / send_raw_frame up to the lock: Err on an inactive stream
SendCall(t, tag, data) ==
    /\ writers[t].pc = "idle"
    /\ writers' = [writers EXCEPT ![t] =
                      IF sender.is_active
                      THEN [pc |-> "lock", tag |-> tag, data |-> data, res |-> "none"]
                      ELSE [pc |-> "done", tag |-> tag, data |-> data,
                            res |-> "Stream is not active"]]
    /\ UNCHANGED <<wire, wfin, sender, sentLog, receiver, gotLog, sendLog, peerWrites>>
    /\ UNCHANGED <<oldVars, evtVars>>
send_frame(t, bytes) == SendCall(t, FRAME_TYPE_PROTOCOL, bytes)
send_raw_frame_call(t, data) == SendCall(t, FRAME_TYPE_RAW, data)

\* mutant: send_stream is not behind a mutex
Lock_NoMutex(t) ==
    /\ writers[t].pc = "lock"
    /\ IF sender.send_stream
       THEN /\ sender' = [sender EXCEPT !.lock = t]
            /\ writers' = [writers EXCEPT ![t].pc = "len"]
            /\ sentLog' = Append(sentLog, [tag |-> writers[t].tag, data |-> writers[t].data])
       ELSE /\ writers' = [writers EXCEPT ![t].pc = "done", ![t].res = "Send stream is closed"]
            /\ UNCHANGED <<sender, sentLog>>
    /\ UNCHANGED <<wire, wfin, receiver, gotLog, sendLog, peerWrites>>
    /\ UNCHANGED <<oldVars, evtVars>>

\* self.send_stream.lock().await, then if let Some(send_stream)
Lock(t) ==
    /\ writers[t].pc = "lock"
    /\ sender.lock = 0
    /\ IF sender.send_stream
       THEN /\ sender' = [sender EXCEPT !.lock = t]
            /\ writers' = [writers EXCEPT ![t].pc = "len"]
            /\ sentLog' = Append(sentLog, [tag |-> writers[t].tag, data |-> writers[t].data])
       ELSE /\ writers' = [writers EXCEPT ![t].pc = "done", ![t].res = "Send stream is closed"]
            /\ UNCHANGED <<sender, sentLog>>
    /\ UNCHANGED <<wire, wfin, receiver, gotLog, sendLog, peerWrites>>
    /\ UNCHANGED <<oldVars, evtVars>>

\* the pieces of the frame a writer at pc has already written
PieceNo(pc) == IF pc = "len" THEN 1 ELSE IF pc = "tag" THEN 2 ELSE 3

\* one write_all of write_typed_frame; after the last the guard is dropped
\* and the call returns Ok
WriteAll(t) ==
    /\ writers[t].pc \in {"len", "tag", "payload"}
    /\ wire' = Cat(wire, FramePieces(writers[t].tag, writers[t].data)[PieceNo(writers[t].pc)])
    /\ IF writers[t].pc = "payload"
       THEN /\ writers' = [writers EXCEPT ![t].pc = "done", ![t].res = "Ok"]
            /\ sender' = [sender EXCEPT !.lock = IF @ = t THEN 0 ELSE @]
       ELSE /\ writers' = [writers EXCEPT ![t].pc = IF @ = "len" THEN "tag" ELSE "payload"]
            /\ sender' = sender
    /\ UNCHANGED <<wfin, sentLog, receiver, gotLog, sendLog, peerWrites>>
    /\ UNCHANGED <<oldVars, evtVars>>

\* close_stream at the writing end: is_active is stored first, then the
\* mutex is awaited, the SendStream taken and finished
CloseStore ==
    /\ sender.is_active
    /\ sender' = [sender EXCEPT !.is_active = FALSE]
    /\ UNCHANGED <<wire, wfin, writers, sentLog, receiver, gotLog, sendLog, peerWrites>>
    /\ UNCHANGED <<oldVars, evtVars>>
CloseTake ==
    /\ ~sender.is_active
    /\ sender.send_stream
    /\ sender.lock = 0
    /\ sender' = [sender EXCEPT !.send_stream = FALSE]
    /\ wfin' = TRUE
    /\ UNCHANGED <<wire, writers, sentLog, receiver, gotLog, sendLog, peerWrites>>
    /\ UNCHANGED <<oldVars, evtVars>>

Got(res, framed, tag, payload) ==
    [res |-> res, framed |-> framed, tag |-> tag, payload |-> payload]

\* mutant: a failed read leaves the stream active
RecvResult_StaysActive(r) ==
    IF r.st = "err" THEN [log |-> Got("Failed to read frame", FALSE, 0, << >>), active |-> TRUE]
    ELSE IF r.tag = FRAME_TYPE_PROTOCOL
    THEN [log |-> Got(IF Decodable(r.payload) THEN "Protocol" ELSE "decode error",
                      TRUE, r.tag, r.payload), active |-> TRUE]
    ELSE IF r.tag = FRAME_TYPE_RAW
    THEN [log |-> Got("Raw", TRUE, r.tag, r.payload), active |-> TRUE]
    ELSE [log |-> Got("Unknown frame type tag", TRUE, r.tag, r.payload), active |-> TRUE]

\* recv_typed_frame after read_typed_frame has returned r: what it returns
\* and what is_active is afterwards
RecvResult(r) ==
    IF r.st = "err" THEN [log |-> Got("Failed to read frame", FALSE, 0, << >>), active |-> FALSE]
    ELSE IF r.tag = FRAME_TYPE_PROTOCOL
    THEN [log |-> Got(IF Decodable(r.payload) THEN "Protocol" ELSE "decode error",
                      TRUE, r.tag, r.payload), active |-> TRUE]
    ELSE IF r.tag = FRAME_TYPE_RAW
    THEN [log |-> Got("Raw", TRUE, r.tag, r.payload), active |-> TRUE]
    ELSE [log |-> Got("Unknown frame type tag", TRUE, r.tag, r.payload), active |-> TRUE]

\* recv_typed_frame at the reading end
recv_typed_frame ==
    /\ Len(gotLog) < MaxReads
    /\ IF ~receiver.is_active
       THEN /\ gotLog' = Append(gotLog, Got("Stream is not active", FALSE, 0, << >>))
            /\ UNCHANGED <<wire, receiver>>
       ELSE LET r == read_typed_frame(wire, wfin)
            IN /\ r.st # "wait"
               /\ wire' = r.rest
               /\ gotLog' = Append(gotLog, RecvResult(r).log)
               /\ receiver' = [receiver EXCEPT !.is_active = RecvResult(r).active]
    /\ UNCHANGED <<wfin, sender, writers, sentLog, sendLog, peerWrites>>
    /\ UNCHANGED <<oldVars, evtVars>>

FrameInit == Init

FrameNext ==
    \/ \E t \in Writers, bytes \in ProtoPayloads : send_frame(t, bytes)
    \/ \E t \in Writers, data \in Payloads : send_raw_frame_call(t, data)
    \/ \E t \in Writers : Lock(t)
    \/ \E t \in Writers : WriteAll(t)
    \/ CloseStore
    \/ CloseTake
    \/ recv_typed_frame

FrameSpec == FrameInit /\ [][FrameNext]_vars

\* What a peer that writes the stream itself can put on it in one write:
\* length prefixes 0, MAX_MESSAGE_SIZE + 1, MAX_MESSAGE_SIZE and 2^32 - 1;
\* half a prefix; a prefix and a tag with the payload missing; whole frames
\* with the tags 0x00 (decodable or not), 0x01 and 0x02.
PeerChunks ==
    {Bytes(<<0, 0, 0, 0>>), Bytes(<<0, 128, 0, 1>>), Bytes(<<0, 128, 0, 0>>),
     Bytes(<<255, 255, 255, 255>>), Bytes(<<0, 0>>), Bytes(<<0, 0, 0, 3, 1>>),
     write_typed_frame(FRAME_TYPE_PROTOCOL, Bytes(<<7>>)),
     write_typed_frame(FRAME_TYPE_PROTOCOL, << >>),
     write_typed_frame(FRAME_TYPE_RAW, Bytes(<<9>>)),
     write_typed_frame(2, Bytes(<<9>>))}

PeerWrite(chunk) ==
    /\ ~wfin
    /\ peerWrites < MaxPeerWrites
    /\ peerWrites' = peerWrites + 1
    /\ wire' = Cat(wire, chunk)
    /\ UNCHANGED <<wfin, sender, writers, sentLog, receiver, gotLog, sendLog>>
    /\ UNCHANGED <<oldVars, evtVars>>

\* the peer finishes its side of the stream, or the stream is lost
PeerStreamEnds ==
    /\ ~wfin
    /\ wfin' = TRUE
    /\ UNCHANGED <<wire, sender, writers, sentLog, receiver, gotLog, sendLog, peerWrites>>
    /\ UNCHANGED <<oldVars, evtVars>>

\* send_frame on the stream of the reading end: Err when it is inactive;
\* `after` records how many receives had returned
RxSend ==
    /\ Len(sendLog) < MaxSends
    /\ sendLog' = Append(sendLog, [after |-> Len(gotLog),
                                    res |-> IF receiver.is_active THEN "Ok"
                                            ELSE "Stream is not active"])
    /\ UNCHANGED <<wire, wfin, sender, writers, sentLog, receiver, gotLog, peerWrites>>
    /\ UNCHANGED <<oldVars, evtVars>>

ReadNext ==
    \/ \E chunk \in PeerChunks : PeerWrite(chunk)
    \/ PeerStreamEnds
    \/ recv_typed_frame
    \/ RxSend

ReadSpec == Init /\ [][ReadNext]_vars

\* ------------------------------------------------------- connection events
MaxSubscribers == 2
\* handle_connection has not yet come to the Connected call
BeforeConnected == {"listening", "start", "open_bi", "write", "emit"}

\* subscribe_connection_events: a new mpsc channel; its Sender replaces the
\* one stored (which drops it: the Receiver returned earlier is closed), its
\* Receiver is returned.  `since` records where handle_connection was.
subscribe_connection_events ==
    /\ Len(eventRx) < MaxSubscribers
    /\ eventRx' = Append([r \in DOMAIN eventRx |-> [eventRx[r] EXCEPT !.open = FALSE]],
                         [since |-> srvPc, queue |-> << >>, open |-> TRUE])
    /\ connection_event_tx' = Len(eventRx) + 1
    /\ UNCHANGED <<oldVars, frmVars>>

\* The server from its construction to the end of one connection, with
\* subscriptions at any time.  The Connected and Disconnected calls are the
\* steps EmitConnected and AcceptFails.
EventNext ==
    \/ subscribe_connection_events
    \/ \E n \in HandlerNames : register_channel(n)
    \/ QuicConnect
    \/ LinkDown
    \/ BuildIdentity
    \/ OpenIdentityStream
    \/ WriteIdentity
    \/ EmitConnected
    \/ AcceptFails

EventSpec == ConnInit /\ [][EventNext]_vars

\* ------------------------------------------ several channels, one connection
\* Every open_channel makes a stream of its own and UnisonChannel::new gives
\* it its own pending map, id counter (from 1) and receive task.  On the
\* server the stream's task either runs the handler registered for the name,
\* which answers requests or blocks for ever, or finds no handler and returns,
\* which closes the stream.  The request steps are those of request() above,
\* with two refinements: recv_typed_frame clears is_active before the loop
\* drains the map, and the request timer is long: it fires only when nothing
\* that would resolve the request is on its way.
ChanTag(ch) == IF ch = 1 THEN "on channel 1" ELSE "on channel 2"
MuxNames == {"ping", "nope"}

\* What the server's read_typed_frame finds first on a stream a client
\* opened for `name`: the "__channel:<name>" message when it was written as a
\* typed frame; when it was written with write_frame ([len][bytes], as
\* ProtocolClient::open_channel does) the first byte of the message is taken
\* for the tag and the rest for the payload: a tag that is not 0x00, or a
\* payload that decodes to no message.
OpenFrame(name) == Message(1, ChannelMethod(name), "Request", to_string("empty"))
OpenFrames(name) == {OpenFrame(name), OtherFrame("misframed")}

\* the client opens its next stream, writes the first frame and hands the
\* stream to UnisonChannel::new, which spawns the receive task
MxOpen(ch, name, first) ==
    /\ connection = "open"
    /\ link = "up"
    /\ mx[ch].name = "none"
    /\ \A j \in ChanIds : j < ch => mx[j].name # "none"
    /\ mx' = [mx EXCEPT ![ch] =
                 [NoChannel EXCEPT !.name = name, !.is_active = TRUE, !.recvLoop = "running",
                                   !.first = first, !.peer = "opened"]]
    /\ UNCHANGED <<mxCallers, connection, connVars>>
    /\ UNCHANGED <<registry, chanOpen, chanVars, callers, peerVars, histVars, queueVars>>

\* mutant: a stream without a handler ends the connection
MxDispatch_Disconnects(ch, mode) ==
    /\ link = "up"
    /\ mx[ch].peer = "opened"
    /\ LET found == Dispatch(mx[ch].first, channel_handlers) # {}
       IN /\ mx' = [mx EXCEPT ![ch].peer = IF found THEN mode ELSE "closed",
                              ![ch].inbox = IF found THEN @ ELSE {}]
          /\ link' = IF found THEN link ELSE "down"
    /\ UNCHANGED <<mxCallers, connection, srvVars, cliVars, s2cStreams, pushed, extVars>>
    /\ UNCHANGED <<registry, chanOpen, chanVars, callers, peerVars, histVars, queueVars>>

\* the server's task for the stream reads the first frame: with a handler
\* for it, handler(ctx, stream) runs, and answers or blocks; without, the
\* task returns and the stream is dropped.  Nothing else is touched.
MxDispatch(ch, mode) ==
    /\ link = "up"
    /\ mx[ch].peer = "opened"
    /\ LET found == Dispatch(mx[ch].first, channel_handlers) # {}
       IN /\ mx' = [mx EXCEPT ![ch].peer = IF found THEN mode ELSE "closed",
                              ![ch].inbox = IF found THEN @ ELSE {}]
          /\ link' = link
    /\ UNCHANGED <<mxCallers, connection, srvVars, cliVars, s2cStreams, pushed, extVars>>
    /\ UNCHANGED <<registry, chanOpen, chanVars, callers, peerVars, histVars, queueVars>>

MxAlloc(c, ch) ==
    /\ mxCallers[c].pc = "idle"
    /\ \A d \in Callers : d < c => mxCallers[d].pc # "idle"
    /\ mx[ch].name # "none"
    /\ mxCallers' = [mxCallers EXCEPT ![c] = [NoCall EXCEPT !.ch = ch, !.pc = "alloc",
                                                          !.id = mx[ch].next_id]]
    /\ mx' = [mx EXCEPT ![ch].next_id = @ + 1]
    /\ UNCHANGED <<connection, connVars>>
    /\ UNCHANGED <<registry, chanOpen, chanVars, callers, peerVars, histVars, queueVars>>

MxInsert(c) ==
    /\ mxCallers[c].pc = "alloc"
    /\ mx' = [mx EXCEPT ![mxCallers[c].ch].pending = Insert(@, mxCallers[c].id, c)]
    /\ mxCallers' = [mxCallers EXCEPT ![c].pc = "inserted"]
    /\ UNCHANGED <<connection, connVars>>
    /\ UNCHANGED <<registry, chanOpen, chanVars, callers, peerVars, histVars, queueVars>>

\* send_frame: Err on an inactive stream; a write to a stream the server has
\* dropped, or on a lost connection, fails once the client has learnt of it
\* and succeeds before
MxSend(c) ==
    /\ mxCallers[c].pc = "inserted"
    /\ LET ch == mxCallers[c].ch
           gone == mx[ch].peer = "closed" \/ link = "down"
       IN \/ /\ ~mx[ch].is_active \/ gone
             /\ mxCallers' = [mxCallers EXCEPT ![c].pc = "done", ![c].res = "SendError"]
             /\ mx' = mx
          \/ /\ mx[ch].is_active
             /\ mxCallers' = [mxCallers EXCEPT ![c].pc = "waiting"]
             /\ mx' = IF gone THEN mx
                      ELSE [mx EXCEPT ![ch].inbox = @ \cup {mxCallers[c].id}]
    /\ UNCHANGED <<connection, connVars>>
    /\ UNCHANGED <<registry, chanOpen, chanVars, callers, peerVars, histVars, queueVars>>

\* the handler answers a request it has read: send_response(id, ..) on its
\* end of the stream
MxRespond(ch, id) ==
    /\ link = "up"
    /\ mx[ch].peer = "handler"
    /\ id \in mx[ch].inbox
    /\ mx[ch].wire = << >>
    /\ mx' = [mx EXCEPT ![ch].wire = <<new_with_json(id, "Response", ChanTag(ch))>>,
                        ![ch].inbox = @ \ {id}]
    /\ UNCHANGED <<mxCallers, connection, connVars>>
    /\ UNCHANGED <<registry, chanOpen, chanVars, callers, peerVars, histVars, queueVars>>

\* mutant: one pending map for the whole connection
PendingOf_Shared(ch) == mx[1].pending

\* recv_pending = Arc::clone(&pending): the map of this channel
PendingOf(ch) == mx[ch].pending

\* the receive task of a channel reads a Response from its own stream
MxRecvFrame(ch) ==
    /\ mx[ch].recvLoop = "running"
    /\ mx[ch].is_active
    /\ mx[ch].wire # << >>
    /\ LET msg == Head(mx[ch].wire)
           map == PendingOf(ch)
       IN IF msg.id \in DOMAIN map
          THEN /\ mxCallers' = IF mxCallers[map[msg.id]].pc \in {"inserted", "waiting"}
                               THEN [mxCallers EXCEPT ![map[msg.id]].rx = msg]
                               ELSE mxCallers
               /\ mx' = [mx EXCEPT ![ch].wire = << >>,
                                   ![ch].pending = Remove(mx[ch].pending, msg.id)]
          ELSE /\ mxCallers' = mxCallers
               /\ mx' = [mx EXCEPT ![ch].wire = << >>]
    /\ UNCHANGED <<connection, connVars>>
    /\ UNCHANGED <<registry, chanOpen, chanVars, callers, peerVars, histVars, queueVars>>

\* recv_typed_frame fails on a finished or reset stream or a lost
\* connection, after the frames that had arrived: it stores is_active = false
\* and returns Err to the loop
MxReadEof(ch) ==
    /\ mx[ch].recvLoop = "running"
    /\ mx[ch].wire = << >>
    /\ mx[ch].peer = "closed" \/ link = "down"
    /\ mx' = [mx EXCEPT ![ch].is_active = FALSE, ![ch].recvLoop = "draining"]
    /\ UNCHANGED <<mxCallers, connection, connVars>>
    /\ UNCHANGED <<registry, chanOpen, chanVars, callers, peerVars, histVars, queueVars>>

\* the loop's Err arm: every sender in the map is sent the "connection
\* closed" Error, the map is left empty, break
MxDrain(ch) ==
    /\ mx[ch].recvLoop = "draining"
    /\ mx' = [mx EXCEPT ![ch].recvLoop = "exited", ![ch].pending = << >>]
    /\ mxCallers' = [c \in Callers |->
                        IF /\ \E id \in DOMAIN mx[ch].pending : mx[ch].pending[id] = c
                           /\ RxAlive(mxCallers, c)
                        THEN [mxCallers[c] EXCEPT !.rx = ConnectionClosedMsg]
                        ELSE mxCallers[c]]
    /\ UNCHANGED <<connection, connVars>>
    /\ UNCHANGED <<registry, chanOpen, chanVars, callers, peerVars, histVars, queueVars>>

\* timeout(self.request_timeout, rx) resolved by the oneshot value
MxComplete(c) ==
    /\ mxCallers[c].pc = "waiting"
    /\ mxCallers[c].rx # NoMsg
    /\ mxCallers' = [mxCallers EXCEPT ![c].pc = "done",
                                      ![c].res = RequestOutcome(mxCallers[c].rx).res]
    /\ UNCHANGED <<mx, connection, connVars>>
    /\ UNCHANGED <<registry, chanOpen, chanVars, callers, peerVars, histVars, queueVars>>

\* something that will resolve the request of c is on its way: the answer
\* of a handler that has or will have the request, or the end of the stream
OnItsWay(c) ==
    LET ch == mxCallers[c].ch
        id == mxCallers[c].id
    IN /\ id \in DOMAIN mx[ch].pending
       /\ mx[ch].pending[id] = c
       /\ mx[ch].recvLoop # "exited"
       /\ \/ mx[ch].recvLoop = "draining"
          \/ link = "down"
          \/ mx[ch].peer \in {"opened", "closed"}
          \/ /\ mx[ch].peer = "handler"
             /\ id \in mx[ch].inbox \/ \E i \in DOMAIN mx[ch].wire : mx[ch].wire[i].id = id

\* timeout(self.request_timeout, rx) resolved by the timer, which outlasts
\* whatever is on its way
MxTimeout(c) ==
    /\ mxCallers[c].pc = "waiting"
    /\ mxCallers[c].rx = NoMsg
    /\ ~OnItsWay(c)
    /\ mxCallers' = [mxCallers EXCEPT ![c].pc = "done", ![c].res = "Timeout"]
    /\ UNCHANGED <<mx, connection, connVars>>
    /\ UNCHANGED <<registry, chanOpen, chanVars, callers, peerVars, histVars, queueVars>>

MuxInit ==
    /\ connection = "open"
    /\ registry = << >> /\ chanOpen = FALSE
    /\ next_id = FirstId /\ pending = << >> /\ eventq = << >> /\ rawq = << >>
    /\ recv_task = FALSE /\ recvLoop = "none"
    /\ is_active = FALSE /\ send_stream = FALSE /\ recv_stream = FALSE
    /\ callers = [c \in Callers |-> IdleCaller]
    /\ peerInbox = {} /\ s2c = << >> /\ unsolicited = 0 /\ peerFin = FALSE
    /\ allocOrder = << >> /\ closeCount = 0 /\ lastOp = NoOp
    /\ wireSent = << >> /\ evRecvd = << >> /\ rawRecvd = << >>
    /\ ConnectedTo({"ping"})
    /\ MuxIdle
    /\ ExtIdle

MuxNext ==
    \/ \E ch \in ChanIds, n \in MuxNames : \E f \in OpenFrames(n) : MxOpen(ch, n, f)
    \/ \E ch \in ChanIds, mode \in {"handler", "blocked"} : MxDispatch(ch, mode)
    \/ LinkDown
    \/ \E c \in Callers, ch \in ChanIds : MxAlloc(c, ch)
    \/ \E c \in Callers : MxInsert(c)
    \/ \E c \in Callers : MxSend(c)
    \/ \E ch \in ChanIds, id \in 1..NumCallers : MxRespond(ch, id)
    \/ \E ch \in ChanIds : MxRecvFrame(ch)
    \/ \E ch \in ChanIds : MxReadEof(ch)
    \/ \E ch \in ChanIds : MxDrain(ch)
    \/ \E c \in Callers : MxComplete(c)
    \/ \E c \in Callers : MxTimeout(c)

MuxSpec == MuxInit /\ [][MuxNext]_vars

\* each receive task, each server task and each request() future is
\* scheduled; a handler that answers does answer
MuxFairSpec ==
    /\ MuxSpec
    /\ \A ch \in ChanIds : WF_vars(\E mode \in {"handler", "blocked"} : MxDispatch(ch, mode))
    /\ \A ch \in ChanIds : WF_vars(\E id \in 1..NumCallers : MxRespond(ch, id))
    /\ \A ch \in ChanIds : WF_vars(MxRecvFrame(ch))
    /\ \A ch \in ChanIds : WF_vars(MxReadEof(ch))
    /\ \A ch \in ChanIds : WF_vars(MxDrain(ch))
    /\ \A c \in Callers : WF_vars(MxInsert(c))
    /\ \A c \in Callers : WF_vars(MxSend(c))
    /\ \A c \in Callers : WF_vars(MxComplete(c) \/ MxTimeout(c))

\* ------------------------------------------------------------- disconnect
\* mutant: the tasks are aborted and the connection forgotten, not closed
disconnect_NoClose ==
    /\ connection = "open"
    /\ response_tasks' = IF response_tasks = "running" THEN "aborted" ELSE response_tasks
    /\ connection' = "none"
    /\ link' = link
    /\ UNCHANGED <<srvVars, cliPc, cliRx, cliIdentity, s2cStreams, pushed, extVars>>
    /\ UNCHANGED <<registry, chanOpen, chanVars, callers, peerVars, histVars, queueVars,
                   muxVars>>

\* QuicClient::disconnect on a client that is connected: every task in
\* response_tasks is aborted, the Connection is taken out of the Option and
\* closed, which ends every stream of it at once, and the endpoint dropped.
\* (Without a connection the call finds nothing to do.)
disconnect ==
    /\ connection = "open"
    /\ response_tasks' = IF response_tasks = "running" THEN "aborted" ELSE response_tasks
    /\ connection' = "none"
    /\ link' = "down"
    /\ UNCHANGED <<srvVars, cliPc, cliRx, cliIdentity, s2cStreams, pushed, extVars>>
    /\ UNCHANGED <<registry, chanOpen, chanVars, callers, peerVars, histVars, queueVars,
                   muxVars>>

\* a connected client with channels and requests on them, disconnected at
\* any moment
DiscNext ==
    \/ disconnect
    \/ \E ch \in ChanIds, n \in MuxNames : MxOpen(ch, n, OpenFrame(n))
    \/ \E ch \in ChanIds, mode \in {"handler", "blocked"} : MxDispatch(ch, mode)
    \/ \E c \in Callers, ch \in ChanIds : MxAlloc(c, ch)
    \/ \E c \in Callers : MxInsert(c)
    \/ \E c \in Callers : MxSend(c)
    \/ \E ch \in ChanIds, id \in 1..NumCallers : MxRespond(ch, id)
    \/ \E ch \in ChanIds : MxRecvFrame(ch)
    \/ \E ch \in ChanIds : MxReadEof(ch)
    \/ \E ch \in ChanIds : MxDrain(ch)
    \/ \E c \in Callers : MxComplete(c)
    \/ \E c \in Callers : MxTimeout(c)

DiscSpec == MuxInit /\ [][DiscNext]_vars

\* the tasks are scheduled as in MuxFairSpec; disconnect is up to the caller
DiscFairSpec ==
    /\ DiscSpec
    /\ \A ch \in ChanIds : WF_vars(\E mode \in {"handler", "blocked"} : MxDispatch(ch, mode))
    /\ \A ch \in ChanIds : WF_vars(\E id \in 1..NumCallers : MxRespond(ch, id))
    /\ \A ch \in ChanIds : WF_vars(MxRecvFrame(ch))
    /\ \A ch \in ChanIds : WF_vars(MxReadEof(ch))
    /\ \A ch \in ChanIds : WF_vars(MxDrain(ch))
    /\ \A c \in Callers : WF_vars(MxInsert(c))
    /\ \A c \in Callers : WF_vars(MxSend(c))
    /\ \A c \in Callers : WF_vars(MxComplete(c) \/ MxTimeout(c))

\* ------------------------------------------------ the connection context
MaxOpens == 2       \* open_channel calls
MaxCtxCalls == 3    \* register_channel / remove_channel calls on one context
CtxNames == MuxNames
ChannelHandle(name, stream_id, direction) ==
    [channel_name |-> name, stream_id |-> stream_id, direction |-> direction]
\* the handles registered directly (connect_with_channels uses stream id 0)
Handles ==
    {ChannelHandle(n, 0, d) : n \in CtxNames, d \in {"Bidirectional", "ServerToClient"}}

\* mutant: a name that is already registered keeps its first handle
channels_insert_KeepsFirst(map, handle) ==
    IF handle.channel_name \in DOMAIN map THEN map
    ELSE Insert(map, handle.channel_name, handle)

\* channels.insert(handle.channel_name.clone(), handle)
channels_insert(map, handle) == Insert(map, handle.channel_name, handle)

\* channels.remove(name)
channels_remove(map, name) == [x \in (DOMAIN map) \ {name} |-> map[x]]

CtxCall(op, name, handle) == [op |-> op, name |-> name, handle |-> handle]

\* what a call on the context leaves alone
ctxRest == <<chanOpen, chanVars, callers, peerVars, allocOrder, closeCount, queueVars,
             srvVars, cliVars, netVars, muxVars, evtVars, frmVars, lsnVars>>

\* ConnectionContext::register_channel
ctx_register_channel(handle) ==
    /\ Len(ctxLog) < MaxCtxCalls
    /\ registry' = channels_insert(registry, handle)
    /\ ctxLog' = Append(ctxLog, CtxCall("register", handle.channel_name, {handle}))
    /\ UNCHANGED <<connection, lastOp, COUNTER, handshakes, openLog, ctxRest>>

\* ConnectionContext::remove_channel
remove_channel(name) ==
    /\ Len(ctxLog) < MaxCtxCalls
    /\ registry' = channels_remove(registry, name)
    /\ ctxLog' = Append(ctxLog, CtxCall("remove", name, {}))
    /\ UNCHANGED <<connection, lastOp, COUNTER, handshakes, openLog, ctxRest>>

\* ------------------------------------------------------ ProtocolFrame bytes
\* frame.to_bytes() and ProtocolFrame::from_bytes belong to the packet
\* module.  A packet is a header followed by the archived message; here the
\* header is one byte whose value is not fixed, followed by one byte each for
\* the id, the kind, the "__channel:" prefix and the name.  The payload of
\* every message encoded here is the empty JSON object.
PacketHeads == {0, 7}
Kinds == <<"Request", "Response", "Event", "Error", "BidirectionalStream">>
NameSeq == <<"ping", "nope">>
IndexOf(seq, x) == CHOOSE i \in DOMAIN seq : seq[i] = x
EmptyObject == to_string("{}")
to_bytes(msg) ==
    {Bytes(<<h, msg.id, IndexOf(Kinds, msg.kind),
             IF msg.method[1] = "__channel:" THEN 1 ELSE 0,
             IndexOf(NameSeq, msg.method[2])>>) : h \in PacketHeads}
\* Result<ProtocolMessage, _> as a set: {} is Err
from_bytes(b) ==
    IF /\ ByteLen(b) = 5
       /\ ByteAt(b, 1) \in PacketHeads
       /\ ByteAt(b, 3) \in DOMAIN Kinds
       /\ ByteAt(b, 4) \in {0, 1}
       /\ ByteAt(b, 5) \in DOMAIN NameSeq
    THEN {Message(ByteAt(b, 2),
                  <<IF ByteAt(b, 4) = 1 THEN "__channel:" ELSE "", NameSeq[ByteAt(b, 5)]>>,
                  Kinds[ByteAt(b, 3)], EmptyObject)}
    ELSE {}

\* ---------------------------------------------- ProtocolClient::open_channel
\* Option<ConnectionError> of Connection::close_reason as a set
close_reason == IF link = "up" THEN {} ELSE {"closed"}

\* QuicClient::is_connected
QuicClient_is_connected ==
    IF connection = "open" THEN close_reason = {} ELSE FALSE

\* impl UnisonClient for ProtocolClient: fn is_connected(&self) -> bool
UnisonClient_is_connected == FALSE

OpenCall(name, res, wrote, handle) ==
    [name |-> name, connected |-> connection = "open", res |-> res,
     streams |-> Len(wrote), registered |-> handle # {}]

\* the call fails before it has written or registered anything
OpenFails(name, res) ==
    /\ lastOp' = ApiReturn("open_channel", res, NoMsg)
    /\ openLog' = Append(openLog, OpenCall(name, res, << >>, {}))
    /\ UNCHANGED <<registry, ctxLog, COUNTER, handshakes>>

\* open_bi, the "__channel:<name>" message written with write_frame,
\* UnisonStream::from_streams, context.register_channel
ProtocolClient_open_channel(name) ==
    /\ Len(openLog) < MaxOpens
    /\ Len(ctxLog) < MaxCtxCalls
    /\ IF connection # "open" THEN OpenFails(name, "NotConnected")
       ELSE IF close_reason # {} THEN OpenFails(name, "Quic")
       ELSE LET request_id == COUNTER
                message == Message(request_id, ChannelMethod(name),
                                   "BidirectionalStream", EmptyObject)
                handle == ChannelHandle(name, request_id, "Bidirectional")
            IN \E frame_bytes \in to_bytes(message) :
                  LET stream == [name |-> name, id |-> request_id,
                                 wire |-> write_frame(frame_bytes), read |-> {}]
                  IN /\ COUNTER' = COUNTER + 1
                     /\ handshakes' = Append(handshakes, stream)
                     /\ registry' = channels_insert(registry, handle)
                     /\ ctxLog' = Append(ctxLog, CtxCall("register", name, {handle}))
                     /\ lastOp' = ApiReturn("open_channel", "Ok", NoMsg)
                     /\ openLog' = Append(openLog, OpenCall(name, "Ok", <<stream>>, {handle}))
    /\ UNCHANGED <<connection, ctxRest>>

\* a client and its context from construction on
CtxNext ==
    \/ QuicConnect
    \/ LinkDown
    \/ disconnect
    \/ \E n \in CtxNames : ProtocolClient_open_channel(n)
    \/ \E h \in Handles : ctx_register_channel(h)
    \/ \E n \in CtxNames : remove_channel(n)

CtxSpec == ConnInit /\ [][CtxNext]_vars

\* ------------------------------------ handle_connection: the handshake read
Handshake(st, name) == [st |-> st, name |-> name]
HandshakeOutcome(w) ==
    LET r == read_typed_frame(w, FALSE)
    IN IF r.st = "err" THEN Handshake("read_failed", "")
       ELSE IF r.tag # FRAME_TYPE_PROTOCOL THEN Handshake("unexpected_type", "")
       ELSE IF from_bytes(r.payload) = {} THEN Handshake("parse_failed", "")
       ELSE LET request == CHOOSE m \in from_bytes(r.payload) : TRUE
            IN IF strip_prefix(request.method) = {} THEN Handshake("non_channel", "")
               ELSE LET channel_name == CHOOSE n \in strip_prefix(request.method) : TRUE
                    IN IF channel_name \in channel_handlers
                       THEN Handshake("handler", channel_name)
                       ELSE Handshake("no_handler", channel_name)

\* the task spawned for an accepted stream reads its first frame
HandshakeRead(i) ==
    /\ i \in DOMAIN handshakes
    /\ srvPc = "accepting"
    /\ link = "up"
    /\ handshakes[i].read = {}
    /\ read_typed_frame(handshakes[i].wire, FALSE).st # "wait"
    /\ handshakes' = [handshakes EXCEPT ![i].read = {HandshakeOutcome(handshakes[i].wire)}]
    /\ UNCHANGED <<connection, registry, lastOp, ctxLog, COUNTER, openLog, ctxRest>>

\* a connected client opening channels, the server reading the handshakes
HandshakeNext ==
    \/ \E n \in CtxNames : ProtocolClient_open_channel(n)
    \/ \E i \in 1..MaxOpens : HandshakeRead(i)
    \/ \E n \in CtxNames : remove_channel(n)
    \/ LinkDown
    \/ disconnect

HandshakeSpec == MuxInit /\ [][HandshakeNext]_vars

\* ------------------------------------------------ the server's accept loop
MaxArrivals == 4    \* connection attempts made at one endpoint

\* what the accept loop leaves alone
lsnRest == <<oldRest, evtVars, frmVars>>

\* ProtocolServer::spawn_listen: bind, running = true, the task is spawned
\* with the receiving half of the shutdown oneshot
spawn_listen ==
    /\ listenCall = "none"
    /\ listenCall' = "spawn_listen"
    /\ endpoint' = "open"
    /\ running' = TRUE
    /\ shutdown_tx' = TRUE
    /\ serverTask' = "select"
    /\ UNCHANGED <<shutdown_rx, taskResult, shutdownCall, incoming, arrivals, handled,
                   hsFailed, handledLate, lsnRest>>

\* UnisonServer::listen up to quic_server.start(): running = true, bind; the
\* caller's own task runs the accept loop
listen ==
    /\ listenCall = "none"
    /\ listenCall' = "listen"
    /\ running' = TRUE
    /\ endpoint' = "open"
    /\ serverTask' = "select"
    /\ UNCHANGED <<shutdown_tx, shutdown_rx, taskResult, shutdownCall, incoming, arrivals,
                   handled, hsFailed, handledLate, lsnRest>>

\* a client starts a connection; an endpoint that was closed or dropped
\* hands no connection to anybody
ClientArrives ==
    /\ endpoint = "open"
    /\ arrivals < MaxArrivals
    /\ arrivals' = arrivals + 1
    /\ incoming' = incoming + 1
    /\ UNCHANGED <<running, endpoint, shutdown_tx, shutdown_rx, serverTask, taskResult,
                   listenCall, shutdownCall, handled, hsFailed, handledLate, lsnRest>>

\* endpoint.accept() yields Some(connecting): the loop goes on to
\* connecting.await, inside the loop body
AcceptArm ==
    /\ serverTask = "select"
    /\ endpoint = "open"
    /\ incoming > 0
    /\ incoming' = incoming - 1
    /\ serverTask' = "handshake"
    /\ UNCHANGED <<running, endpoint, shutdown_tx, shutdown_rx, taskResult, listenCall,
                   shutdownCall, arrivals, handled, hsFailed, handledLate, lsnRest>>

\* connecting.await is Ok: handle_connection is spawned on its own task and
\* the loop accepts again
HandshakeOk ==
    /\ serverTask = "handshake"
    /\ handled' = handled + 1
    /\ handledLate' = (handledLate \/ shutdownCall \in {"Ok", "Err"})
    /\ serverTask' = "select"
    /\ UNCHANGED <<running, endpoint, shutdown_tx, shutdown_rx, taskResult, listenCall,
                   shutdownCall, incoming, arrivals, hsFailed, lsnRest>>

\* connecting.await is Err: `connecting.await?` returns the error from start /
\* start_with_shutdown.  The QuicServer and its endpoint are dropped without
\* endpoint.close().  The spawned task stores running = false; listen()
\* returns the error through its own `?` and leaves running as it is.
HandshakeFails ==
    /\ serverTask = "handshake"
    /\ hsFailed' = hsFailed + 1
    /\ taskResult' = "Err"
    /\ serverTask' = "finished"
    /\ endpoint' = "dropped"
    /\ running' = IF listenCall = "spawn_listen" THEN FALSE ELSE running
    /\ listenCall' = IF listenCall = "listen" THEN "listen returned Err" ELSE listenCall
    /\ UNCHANGED <<shutdown_tx, shutdown_rx, shutdownCall, incoming, arrivals, handled,
                   handledLate, lsnRest>>

\* the shutdown arm of select!: endpoint.close(), break, Ok(()); the task
\* stores running = false
ShutdownArm ==
    /\ serverTask = "select"
    /\ shutdown_rx = "signalled"
    /\ endpoint' = "closed"
    /\ taskResult' = "Ok"
    /\ running' = FALSE
    /\ serverTask' = "finished"
    /\ UNCHANGED <<shutdown_tx, shutdown_rx, listenCall, shutdownCall, incoming, arrivals,
                   handled, hsFailed, handledLate, lsnRest>>

\* ServerHandle::shutdown up to the join: shutdown_tx.take(), tx.send(()).
\* The send fails, and is ignored, when the task has finished.
ShutdownSignal ==
    /\ listenCall = "spawn_listen"
    /\ shutdownCall = "none"
    /\ shutdown_tx' = FALSE
    /\ shutdown_rx' = IF shutdown_tx /\ serverTask # "finished" THEN "signalled"
                      ELSE shutdown_rx
    /\ shutdownCall' = "joining"
    /\ UNCHANGED <<running, endpoint, serverTask, taskResult, listenCall, incoming,
                   arrivals, handled, hsFailed, handledLate, lsnRest>>

\* self.join_handle.await: the result of the task
ShutdownJoin ==
    /\ shutdownCall = "joining"
    /\ serverTask = "finished"
    /\ shutdownCall' = taskResult
    /\ UNCHANGED <<running, endpoint, shutdown_tx, shutdown_rx, serverTask, taskResult,
                   listenCall, incoming, arrivals, handled, hsFailed, handledLate, lsnRest>>

LsnNext ==
    \/ spawn_listen
    \/ listen
    \/ ClientArrives
    \/ AcceptArm
    \/ HandshakeOk
    \/ HandshakeFails
    \/ ShutdownArm
    \/ ShutdownSignal
    \/ ShutdownJoin

LsnSpec == Init /\ [][LsnNext]_vars

\* The accept loop is polled while it can make progress; a handshake ends,
\* with a connection or with an error (at the latest on the idle timeout);
\* select! picks among its ready arms at random, so an arm that is ready
\* again and again is taken; the join returns once the task has finished.
LsnFairSpec ==
    /\ LsnSpec
    /\ WF_vars(AcceptArm)
    /\ WF_vars(HandshakeOk \/ HandshakeFails)
    /\ SF_vars(ShutdownArm)
    /\ WF_vars(ShutdownJoin)

\* --------------------------------------------------- a peer that floods
MaxFlood == 260     \* frames the flooding peer writes: more than the capacity
MaxPops == 3        \* recv() / recv_raw() calls while it does

\* The peer writes events, or raw frames, one kind in one run.  A frame the
\* receive loop holds while its push waits stands at the head of s2c.
FloodFrames == {new_with_json(0, "Event", "a"), send_raw_frame(RawBytes)}
FloodPush(f) ==
    /\ chanOpen
    /\ ~peerFin
    /\ Len(wireSent) < MaxFlood
    /\ Len(s2c) < MaxWire
    /\ \A i \in DOMAIN wireSent : wireSent[i] = f
    /\ s2c' = Append(s2c, f)
    /\ wireSent' = Append(wireSent, f)
    /\ UNCHANGED <<peerInbox, unsolicited, peerFin, callers, evRecvd, rawRecvd>>
    /\ UNCHANGED <<envVars, ctxVars, chanVars, histVars>>

\* the application pops now and then
FloodRecv ==
    /\ Len(evRecvd) < MaxPops
    /\ RecvLogged

FloodRecvRaw ==
    /\ Len(rawRecvd) < MaxPops
    /\ RecvRawLogged

FloodNext ==
    \/ \E n \in ChannelNames : open_channel(n)
    \/ \E f \in FloodFrames : FloodPush(f)
    \/ RecvLoopFrame
    \/ FloodRecv
    \/ FloodRecvRaw

FloodSpec == Init /\ [][FloodNext]_vars

\* the peer answers a Request behind whatever it has already written
FloodRespond(id, text) ==
    /\ id \in peerInbox
    /\ ~peerFin
    /\ Len(s2c) < MaxWire
    /\ s2c' = Append(s2c, Frame("proto", "Response", id, text))
    /\ peerInbox' = peerInbox \ {id}
    /\ UNCHANGED <<unsolicited, peerFin, callers>>
    /\ UNCHANGED <<auxVars, ctxVars, chanVars, histVars>>

\* one request() on a channel whose application never calls recv() or
\* recv_raw()
StarveNext ==
    \/ \E n \in ChannelNames : open_channel(n)
    \/ ReqAlloc(1)
    \/ ReqInsert(1)
    \/ ReqSend(1)
    \/ \E text \in PeerTexts : FloodRespond(1, text)
    \/ \E f \in FloodFrames : FloodPush(f)
    \/ RecvLoopFrame
    \/ ReqComplete(1)
    \/ ReqTimeout(1)

StarveSpec == Init /\ [][StarveNext]_vars

\* the receive task and the awaited request() are polled whenever they can
\* make progress; nothing obliges the peer to write
StarveFairSpec ==
    /\ StarveSpec
    /\ WF_vars(RecvLoopFrame)
    /\ WF_vars(ReqInsert(1))
    /\ WF_vars(ReqSend(1))
    /\ WF_vars(ReqComplete(1) \/ ReqTimeout(1))

\* ------------------------------------- request() after the loop has exited
\* every request() starts when the receive loop has already left its loop
LateRequest(c) ==
    /\ recvLoop = "exited"
    /\ ReqAlloc(c)

LateNext ==
    \/ \E n \in ChannelNames : open_channel(n)
    \/ \E c \in Callers : LateRequest(c)
    \/ \E c \in Callers : ReqInsert(c)
    \/ \E c \in Callers : ReqSend(c)
    \* nobody completes the oneshot of such a call: only the timer ends the wait
    \/ \E c \in Callers : ReqTimeout(c)
    \/ RecvLoopFrame
    \/ RecvLoopErr
    \/ recv
    \/ recv_raw
    \/ \E id \in 1..MaxId, text \in PeerTexts : PeerRespond(id, text)
    \/ \E f \in UnsolicitedFrames : PeerSend(f)
    \/ PeerFinish

LateSpec == Init /\ [][LateNext]_vars

\* ------------------------------------------- a sender that is cancelled
\* The future of send_frame / send_raw_frame (and with it of request,
\* send_event, send_response, send_raw) is dropped at one of its await
\* points: while it waits for the mutex, or at a write_all of
\* write_typed_frame.  The MutexGuard is dropped with it; what was written
\* stays on the stream.
Cancel(t) ==
    /\ writers[t].pc \in {"lock", "len", "tag", "payload"}
    /\ writers' = [writers EXCEPT ![t].pc = "done", ![t].res = "cancelled"]
    /\ sender' = [sender EXCEPT !.lock = IF @ = t THEN 0 ELSE @]
    /\ UNCHANGED <<wire, wfin, sentLog, receiver, gotLog, sendLog, peerWrites>>
    /\ UNCHANGED <<oldVars, evtVars>>

CancelNext ==
    \/ \E t \in Writers, bytes \in ProtoPayloads : send_frame(t, bytes)
    \/ \E t \in Writers, data \in Payloads : send_raw_frame_call(t, data)
    \/ \E t \in Writers : Lock(t)
    \/ \E t \in Writers : WriteAll(t)
    \/ \E t \in Writers : Cancel(t)
    \/ CloseStore
    \/ CloseTake
    \/ recv_typed_frame

CancelSpec == FrameInit /\ [][CancelNext]_vars

\* The scheduling the runtime guarantees: a spawned receive task and a
\* request() future that is being awaited are polled whenever they can make
\* progress, and the request timer fires.  Nothing obliges the peer to write,
\* or the application to call close, recv or drop a future.
FairSpec ==
    /\ Spec
    /\ WF_vars(RecvLoopFrame)
    /\ WF_vars(RecvLoopErr)
    /\ WF_vars(RecvLoopAborted)
    /\ \A c \in Callers : WF_vars(ReqInsert(c))
    /\ \A c \in Callers : WF_vars(ReqSend(c))
    /\ \A c \in Callers : WF_vars(ReqComplete(c) \/ ReqTimeout(c))

\* C3: a request() that is in flight when close() is called is resolved by
\* the close: it returns a closed error, not Timeout, and its id is no longer
\* in the pending map.
C3_CloseResolvesInFlight ==
    [][\A c \in Callers :
          (/\ closeCount > 0
           /\ callers[c].pc = "waiting"
           /\ callers'[c].pc = "done"
           /\ callers'[c].res # "Dropped")
          => /\ callers'[c].res # "Timeout"
             /\ callers[c].id \notin DOMAIN pending']_vars

\* C4: when the receive loop sees a stream error or EOF it exits, the pending
\* map becomes empty, every request that was waiting in it is handed the
\* synthesized Error "connection closed", and such a request() returns an
\* error carrying that text, never a payload.
C4_EofDrainsPending ==
    [][/\ (recvLoop \in {"running", "aborting"} /\ recvLoop' = "exited")
          => /\ pending' = << >>
             /\ \A id \in DOMAIN pending :
                   RxAlive(callers, pending[id])
                      => callers'[pending[id]].rx = ConnectionClosedMsg
       /\ \A c \in Callers :
             (/\ callers[c].pc = "waiting"
              /\ callers[c].rx = ConnectionClosedMsg
              /\ callers'[c].pc = "done"
              /\ callers'[c].res # "Dropped")
             => /\ callers'[c].res = "RequestError"
                /\ callers'[c].val = "connection closed"]_vars

C4_Witness ==
    /\ recvLoop = "exited"
    /\ pending = << >>
    /\ \E c \in Callers :
          /\ callers[c].rx = ConnectionClosedMsg
          /\ callers[c].res = "RequestError"
          /\ callers[c].val = "connection closed"

\* C5: a request() that times out returns Timeout and touches nothing else:
\* its entry stays in the pending map, the stream stays active and the receive
\* loop keeps running.  The entry of a timed-out request leaves the map only
\* when the receive loop reads a Response or Error with that id, or drains the
\* map on its exit.  A request answered after another one timed out returns
\* the answer.
C5_TimeoutLeavesChannel ==
    [][\A c \in Callers :
          /\ (callers[c].pc = "waiting" /\ callers'[c].res = "Timeout")
                => /\ UNCHANGED <<pending, is_active, recvLoop, send_stream, recv_stream,
                                  recv_task, eventq, rawq>>
                   /\ callers[c].id \in DOMAIN pending'
          /\ (/\ callers[c].res = "Timeout"
              /\ callers[c].id \in DOMAIN pending
              /\ callers[c].id \notin DOMAIN pending')
                => \/ /\ FrameReady
                      /\ NextFrame.id = callers[c].id
                      /\ NextFrame.kind \in {"Response", "Error"}
                      /\ s2c' = Tail(s2c)
                   \/ recvLoop # "exited" /\ recvLoop' = "exited"
          /\ (/\ \E d \in Callers : callers[d].res = "Timeout"
              /\ callers[c].pc = "waiting"
              /\ callers[c].rx.kind = "Response"
              /\ IsJson(callers[c].rx.payload)
              /\ callers'[c].pc = "done"
              /\ callers'[c].res # "Dropped")
                => /\ callers'[c].res = "Ok"
                   /\ callers'[c].val = from_str(callers[c].rx.payload)]_vars

C5_Witness ==
    /\ callers[1].res = "Timeout"
    /\ callers[1].id \in DOMAIN pending
    /\ is_active /\ recvLoop = "running"
    /\ callers[2].res = "Ok"

\* C6: a Response whose request() has timed out or been dropped is discarded
\* by the receive loop: reading it changes no request() call and no queue.
C6_LateResponseDiscarded ==
    [][\A c \in Callers :
          (/\ callers[c].res \in {"Timeout", "Dropped"}
           /\ FrameReady
           /\ NextFrame.t = "proto"
           /\ NextFrame.kind = "Response"
           /\ NextFrame.id = callers[c].id
           /\ s2c' = Tail(s2c))
          => /\ callers' = callers
             /\ eventq' = eventq
             /\ rawq' = rawq]_vars

C6_Witness ==
    /\ \E c \in Callers :
          /\ callers[c].res \in {"Timeout", "Dropped"}
          /\ callers[c].id \notin DOMAIN pending
          /\ callers[c].id \notin peerInbox
          /\ callers[c].rx = NoMsg
    /\ recvLoop = "running"
    /\ unsolicited = 0
    /\ s2c = << >>
    /\ eventq = << >>

\* C7: a request() abandoned after its frame was sent (timed out, or its
\* future dropped) eventually has no entry in the pending map.
C7_AbandonedEntryRemoved ==
    \A c \in Callers :
        [](callers[c].res \in {"Timeout", "Dropped"}
              => <>(callers[c].id \notin DOMAIN pending))

\* C8: once close() has returned, request() returns an error as soon as it
\* tries to send, and send_event, send_response, send_raw, recv and recv_raw
\* each return an error.
C8_AfterCloseAllFail ==
    [][closeCount > 0
          => /\ \A c \in Callers :
                   (callers[c].pc = "inserted" /\ callers'[c].pc # "inserted")
                      => callers'[c].res = "SendError"
             /\ (/\ lastOp' # lastOp
                 /\ lastOp'.op \in {"send_event", "send_response", "send_raw",
                                    "recv", "recv_raw"})
                   => lastOp'.res = "Err"]_vars

\* C9: a close() after the first returns Ok and changes nothing: the stream
\* stays inactive, both halves stay released, the receive task stays taken.
C9_CloseIdempotent ==
    [][(closeCount >= 1 /\ closeCount' = closeCount + 1)
          => /\ lastOp'.op = "close" /\ lastOp'.res = "Ok"
             /\ ~is_active' /\ ~send_stream' /\ ~recv_stream' /\ ~recv_task'
             /\ UNCHANGED <<is_active, send_stream, recv_stream, recv_task, recvLoop,
                            next_id, pending, eventq, rawq, callers, registry>>]_vars

C9_Witness ==
    /\ closeCount = 2
    /\ lastOp.op = "close" /\ lastOp.res = "Ok"
    /\ ~is_active /\ ~send_stream /\ ~recv_stream /\ ~recv_task

\* C10: once a channel has closed, by close() or by the end of its stream,
\* the registry has no entry for it: get_channel returns none and
\* channel_names does not list it.
C10_ClosedChannelUnregistered ==
    \A n \in ChannelNames :
        (chanOpen /\ (closeCount > 0 \/ recvLoop = "exited"))
            => (get_channel(n) = {} /\ n \notin channel_names)

C21_AllSubscribersReceive ==
    \A r \in DOMAIN eventRx :
        /\ (eventRx[r].since \in BeforeConnected /\ srvPc \in {"accepting", "ended"})
             => \E i \in DOMAIN eventRx[r].queue : eventRx[r].queue[i] = "Connected"
        /\ (eventRx[r].since # "ended" /\ srvPc = "ended")
             => \E i \in DOMAIN eventRx[r].queue : eventRx[r].queue[i] = "Disconnected"

\* the frames recv_typed_frame took off the stream, in order
FramedGot == SelectSeq(gotLog, LAMBDA g : g.framed)
\* the frame fits the reader's limit
InLimit(f) == 1 + ByteLen(f.data) <= MAX_MESSAGE_SIZE

\* C22: what write_typed_frame writes for a tag 0x00 or 0x01 and a payload
\* within the limit, read_typed_frame reads back as that tag and that payload
\* with nothing left over; of two such frames written back to back it reads
\* the first and leaves exactly the second; and the frames a stream's reader
\* has taken are, one by one, the frames its writers wrote.
C22_RoundTrip ==
    /\ \A i \in DOMAIN sentLog :
          InLimit(sentLog[i])
          => /\ read_typed_frame(write_typed_frame(sentLog[i].tag, sentLog[i].data), FALSE)
                  = [st |-> "ok", err |-> "none", tag |-> sentLog[i].tag,
                     payload |-> sentLog[i].data, rest |-> << >>]
             /\ \A j \in DOMAIN sentLog :
                   read_typed_frame(Cat(write_typed_frame(sentLog[i].tag, sentLog[i].data),
                                        write_typed_frame(sentLog[j].tag, sentLog[j].data)),
                                    FALSE)
                   = [st |-> "ok", err |-> "none", tag |-> sentLog[i].tag,
                      payload |-> sentLog[i].data,
                      rest |-> write_typed_frame(sentLog[j].tag, sentLog[j].data)]
    /\ Len(FramedGot) <= Len(sentLog)
    /\ \A k \in DOMAIN FramedGot :
          /\ FramedGot[k].tag = sentLog[k].tag
          /\ FramedGot[k].payload = sentLog[k].data

\* a raw frame whose payload reads like a length prefix and a protocol frame
\* were written and both have been read back
C22_Witness ==
    /\ Len(FramedGot) = 2
    /\ sentLog[1] = [tag |-> FRAME_TYPE_RAW, data |-> Bytes(<<0, 0, 0, 1>>)]
    /\ sentLog[2].tag = FRAME_TYPE_PROTOCOL
    /\ FramedGot[2].res = "Protocol"

Prefix == from_be_bytes([i \in 1..4 |-> ByteAt(wire, i)])
\* a receive on the active stream returns in this step
ReadReturns == receiver.is_active /\ Len(gotLog') = Len(gotLog) + 1
ReadFailed(g) == g.res = "Failed to read frame"

\* C24: a receive that finds a length prefix of 0 or above MAX_MESSAGE_SIZE
\* fails having taken the four bytes of the prefix and nothing else, whether
\* or not more bytes have arrived; a receive on a stream that ended inside a
\* frame fails; a failed read leaves the stream inactive, and from then on
\* every receive and every send on it fails.
C24_ReaderValidatesLength ==
    /\ [][(ReadReturns /\ ByteLen(wire) >= 4
              /\ (IsZero(Prefix) \/ Above(Prefix, MAX_MESSAGE_SIZE)))
            => /\ ReadFailed(gotLog'[Len(gotLog')])
               /\ wire' = Drop(wire, 4)]_vars
    /\ [][(ReadReturns /\ wfin /\ read_typed_frame(wire, FALSE).st = "wait")
            => ReadFailed(gotLog'[Len(gotLog')])]_vars
    /\ [](\A i \in DOMAIN gotLog :
            ReadFailed(gotLog[i])
            => /\ ~receiver.is_active
               /\ \A j \in DOMAIN gotLog : j > i => gotLog[j].res = "Stream is not active"
               /\ \A k \in DOMAIN sendLog : sendLog[k].after >= i => sendLog[k].res # "Ok")

\* a bad prefix arrived alone, the receive failed without waiting for more
\* bytes, and a receive and a send after it failed
C24_Witness ==
    /\ Len(gotLog) = 2 /\ ReadFailed(gotLog[1]) /\ gotLog[2].res = "Stream is not active"
    /\ peerWrites = 1 /\ ~wfin /\ wire = << >>
    /\ \E k \in DOMAIN sendLog : sendLog[k].after >= 1 /\ sendLog[k].res = "Stream is not active"

\* C25: once a receive has returned the unknown-tag error the stream is
\* inactive: later receives and sends on it fail.
C25_UnknownTagCloses ==
    \A i \in DOMAIN gotLog :
        gotLog[i].res = "Unknown frame type tag"
        => /\ ~receiver.is_active
           /\ \A j \in DOMAIN gotLog : j > i => gotLog[j].res = "Stream is not active"
           /\ \A k \in DOMAIN sendLog : sendLog[k].after >= i => sendLog[k].res # "Ok"

\* the bytes of frame i of sentLog that are on the stream or were: all of
\* them, or, for the frame of the task holding the mutex, the pieces it has
\* written
OnStream(i) ==
    IF sender.lock # 0 /\ i = Len(sentLog)
    THEN LET pc == writers[sender.lock].pc
             pieces == FramePieces(sentLog[i].tag, sentLog[i].data)
         IN IF pc = "len" THEN << >>
            ELSE IF pc = "tag" THEN pieces[1]
            ELSE Cat(pieces[1], pieces[2])
    ELSE write_typed_frame(sentLog[i].tag, sentLog[i].data)
RECURSIVE FramesFrom(_)
FramesFrom(i) == IF i > Len(sentLog) THEN << >> ELSE Cat(OnStream(i), FramesFrom(i + 1))

\* C26: with several tasks sending on one stream, the bytes on the stream
\* are whole frames one after the other, in the order the tasks took the
\* mutex, followed at most by the written part of the one frame being
\* written; only the task holding the mutex is inside a frame.
C26_FramesAtomic ==
    /\ \A t \in Writers : writers[t].pc \in {"len", "tag", "payload"} => sender.lock = t
    /\ (\A i \in DOMAIN gotLog : ~ReadFailed(gotLog[i]))
         => wire = FramesFrom(Len(FramedGot) + 1)

\* one task has written the length of its frame and not yet the tag while
\* the other waits for the mutex
C26_Witness ==
    /\ \E t, u \in Writers : writers[t].pc = "tag" /\ writers[u].pc = "lock"
    /\ gotLog = << >>
    /\ wire # << >>

\* the request of c is on its way and no answer to it has been written
Unanswered(c) ==
    /\ mxCallers[c].pc \in {"alloc", "inserted", "waiting"}
    /\ mxCallers[c].rx = NoMsg
    /\ \A i \in DOMAIN mx[mxCallers[c].ch].wire :
          mx[mxCallers[c].ch].wire[i].id # mxCallers[c].id

\* C39: with senders that may be cancelled at any await point, every frame
\* the peer reads is a frame some task sent: its tag and its payload are
\* those of one send_frame / send_raw_frame call.
C39_CancelKeepsFraming ==
    \A i \in DOMAIN gotLog :
       gotLog[i].framed
          => \E j \in DOMAIN sentLog :
                /\ sentLog[j].tag = gotLog[i].tag
                /\ sentLog[j].data = gotLog[i].payload

Established == connection = "open" /\ close_reason = {}

\* C28: is_connected() is true exactly when a connection has been
\* established and its close reason is not set, so it is false before
\* connect and after disconnect; and an open_channel called while the client
\* holds no connection returns NotConnected, opens no stream and registers
\* no channel.
C28_ConnectionState ==
    /\ QuicClient_is_connected <=> Established
    /\ UnisonClient_is_connected <=> Established
    /\ \A i \in DOMAIN openLog :
          ~openLog[i].connected
             => /\ openLog[i].res = "NotConnected"
                /\ openLog[i].streams = 0
                /\ ~openLog[i].registered

RECURSIVE LastRegistered(_, _)
LastRegistered(log, n) ==
    IF log = << >> THEN {}
    ELSE IF log[Len(log)].name = n THEN log[Len(log)].handle
    ELSE LastRegistered(SubSeq(log, 1, Len(log) - 1), n)

\* C30: after any sequence of register_channel and remove_channel calls,
\* open_channel's registrations included, get_channel(n) is the handle most
\* recently registered under n since n was last removed and none otherwise,
\* channel_names() is the set of the names that have one, and a name never
\* has two handles: a second registration replaces the first.
C30_ContextRegistry ==
    /\ \A n \in CtxNames :
          /\ get_channel(n) = LastRegistered(ctxLog, n)
          /\ Cardinality(get_channel(n)) <= 1
    /\ channel_names = {n \in CtxNames : LastRegistered(ctxLog, n) # {}}

\* a name registered directly and then again by open_channel holds the
\* handle of open_channel; another name has been registered and removed
C30_Witness ==
    \E i, j \in DOMAIN ctxLog :
       /\ i < j
       /\ ctxLog[i].op = "register" /\ ctxLog[j].op = "register"
       /\ ctxLog[i].name = ctxLog[j].name
       /\ ctxLog[i].handle # ctxLog[j].handle
       /\ \E h \in ctxLog[j].handle : h.stream_id >= 1
       /\ get_channel(ctxLog[j].name) = ctxLog[j].handle
       /\ ctxLog[Len(ctxLog)].op = "remove"

\* C31: a shutdown() that has signalled the accept loop eventually returns;
\* once it has returned the server task has finished, the endpoint has been
\* closed, the running flag is false and no connection has been accepted
\* since.
C31_GracefulShutdown ==
    /\ (shutdownCall = "joining") ~> (shutdownCall \in {"Ok", "Err"})
    /\ [](shutdownCall \in {"Ok", "Err"}
            => /\ serverTask = "finished"
               /\ endpoint = "closed"
               /\ ~running
               /\ ~handledLate)

\* C32: a Response whose id has no entry in the pending map is dropped: the
\* receive loop reads it and leaves the pending map, the event queue, the
\* raw queue and every request() call as they were.
C32_UnknownResponseDropped ==
    [][(/\ FrameReady
        /\ NextFrame.t = "proto"
        /\ NextFrame.kind = "Response"
        /\ NextFrame.id \notin DOMAIN pending
        /\ s2c' = Tail(s2c))
          => /\ pending' = pending
             /\ eventq' = eventq
             /\ rawq' = rawq
             /\ callers' = callers]_vars

\* the peer's one unrequested frame has been read by a receive loop that is
\* still running, no request() was ever called, nothing was popped, and
\* nothing is queued: the frame was a Response without a waiter
C32_Witness ==
    /\ unsolicited = 1
    /\ s2c = << >>
    /\ recvLoop = "running"
    /\ \A c \in Callers : callers[c].pc = "idle"
    /\ lastOp = NoOp
    /\ pending = << >> /\ eventq = << >> /\ rawq = << >>

\* C33: request() installs its waiter before it writes its frame: the peer
\* gets the Request of a call only when that call has made its insertion, so
\* no call whose entry is still to be inserted has a frame at the peer to
\* which a Response could come back.
C33_InsertBeforeSend ==
    /\ [](\A c \in Callers : callers[c].pc = "alloc" => callers[c].id \notin peerInbox)
    /\ [][\A id \in peerInbox' \ peerInbox :
             \E c \in Callers : callers[c].id = id /\ callers[c].pc = "inserted"]_vars

\* the Response to a call that is waiting is on the stream and the call's
\* entry is in the pending map
C33_Witness ==
    \E c \in Callers :
       /\ callers[c].pc = "waiting"
       /\ callers[c].id \in DOMAIN pending
       /\ FrameReady
       /\ NextFrame.kind = "Response"
       /\ NextFrame.id = callers[c].id

\* C34: a request() that failed to send its frame has returned that error
\* and has left no entry for its id in the pending map.
C34_SendFailureCleansUp ==
    \A c \in Callers :
       callers[c].res = "SendError" => callers[c].id \notin DOMAIN pending

\* C37: a request() issued after the receive loop has exited is never sent
\* and left waiting for a response, and when it has returned it has returned
\* the send error and its id is not in the pending map.
C37_LateRequestFailsPromptly ==
    \A c \in Callers :
       /\ callers[c].pc # "waiting"
       /\ callers[c].pc = "done"
             => callers[c].res = "SendError" /\ callers[c].id \notin DOMAIN pending

\* C38: a connection whose handshake fails does not end the accept loop of
\* listen() or spawn_listen(): the loop ends only on the shutdown signal,
\* and every connection attempt is waiting at the endpoint, in its
\* handshake, failed, or handled on a task of its own.
C38_KeepsAccepting ==
    /\ serverTask = "finished" => (shutdown_rx = "signalled" /\ taskResult = "Ok")
    /\ arrivals = incoming + handled + hsFailed
                  + (IF serverTask = "handshake" THEN 1 ELSE 0)

\* C12: an incoming Response with id 0 is treated as an event: the receive
\* loop pushes it to the event queue, from which recv() returns it.
C12_ResponseZeroIsEvent ==
    [][(/\ FrameReady
        /\ NextFrame.t = "proto"
        /\ NextFrame.kind = "Response"
        /\ NextFrame.id = 0
        /\ s2c' = Tail(s2c))
          => eventq' = Append(eventq, NextFrame)]_vars

\* C13: an incoming Error whose id is in the pending map is removed from the
\* map and handed to that waiter, whose request() returns an error carrying
\* the decoded payload; an Error whose id is not in the map is pushed to the
\* event queue and leaves the map unchanged.
C13_ErrorRouting ==
    [][/\ (/\ FrameReady
           /\ NextFrame.t = "proto"
           /\ NextFrame.kind = "Error"
           /\ s2c' = Tail(s2c))
             => IF NextFrame.id \in DOMAIN pending
                THEN /\ pending' = Remove(pending, NextFrame.id)
                     /\ eventq' = eventq
                     /\ RxAlive(callers, pending[NextFrame.id])
                           => callers'[pending[NextFrame.id]].rx = NextFrame
                     /\ \A c \in Callers \ {pending[NextFrame.id]} :
                           callers'[c] = callers[c]
                ELSE /\ pending' = pending
                     /\ callers' = callers
                     /\ eventq' = Append(eventq, NextFrame)
       /\ \A c \in Callers :
             (/\ callers[c].pc = "waiting"
              /\ callers[c].rx.kind = "Error"
              /\ IsJson(callers[c].rx.payload)
              /\ callers'[c].pc = "done"
              /\ callers'[c].res # "Dropped")
                => /\ callers'[c].res = "RequestError"
                   /\ callers'[c].val = from_str(callers[c].rx.payload)]_vars

C13_Witness ==
    /\ callers[1].res = "RequestError"
    /\ callers[1].rx = Frame("proto", "Error", 1, to_string("a"))
    /\ callers[1].val = "a"
    /\ 1 \notin DOMAIN pending
    /\ recvLoop = "running"

EventsOf(frames) ==
    SelectSeq(frames, LAMBDA f : f.t = "proto" /\ f.kind \in {"Request", "Event"})
RawOf(frames) == SelectSeq(frames, LAMBDA f : f.t = "raw")
PayloadsOf(frames) == [i \in 1..Len(frames) |-> frames[i].payload]

\* C14: every incoming Request or Event is pushed to the event queue and
\* leaves the pending map alone; recv() returns the queued messages once each
\* and in the order the peer sent them: what recv() has returned, followed by
\* what is queued and what is still unread on the stream, is the sequence of
\* Requests and Events the peer wrote.
C14_EventsInOrder ==
    /\ [](evRecvd \o eventq \o EventsOf(s2c) = EventsOf(wireSent))
    /\ [][(/\ FrameReady
           /\ NextFrame.t = "proto"
           /\ NextFrame.kind \in {"Request", "Event"}
           /\ s2c' = Tail(s2c))
             => /\ eventq' = Append(eventq, NextFrame)
                /\ pending' = pending
                /\ callers' = callers]_vars

C14_Witness ==
    /\ Len(evRecvd) = 2
    /\ evRecvd[1] # evRecvd[2]
    /\ evRecvd[1].id = 1
    /\ 1 \in DOMAIN pending
    /\ callers[1].pc = "waiting"

\* C15: the byte strings written as raw frames come out of recv_raw() once
\* each, unchanged and in send order; a raw frame only ever reaches the raw
\* queue: reading it changes neither the event queue nor the pending map nor
\* any request() call.
C15_RawInOrder ==
    /\ [](rawRecvd \o rawq \o PayloadsOf(RawOf(s2c)) = PayloadsOf(RawOf(wireSent)))
    /\ [][(/\ FrameReady
           /\ NextFrame.t = "raw"
           /\ s2c' = Tail(s2c))
             => /\ rawq' = Append(rawq, NextFrame.payload)
                /\ eventq' = eventq
                /\ pending' = pending
                /\ callers' = callers]_vars

C15_Witness ==
    /\ rawRecvd = <<RawBytes, OtherBytes>>
    /\ Len(evRecvd) = 1
    /\ 1 \in DOMAIN pending

\* the queue the receive loop would push the frame to is full
QueueFullFor(f) ==
    \/ f.t = "raw" /\ Len(rawq) = QueueCapacity
    \/ f.t = "proto" /\ f.kind \in {"Request", "Event"} /\ Len(eventq) = QueueCapacity

\* C35: the event queue and the raw queue never hold more than 256 items;
\* while the queue a frame belongs to is full the receive loop reads no
\* frame; and no frame is lost: what recv() / recv_raw() have returned, what
\* is queued and what is unread is what the peer wrote, in order.
C35_BoundedQueues ==
    /\ [](/\ Len(eventq) <= QueueCapacity
          /\ Len(rawq) <= QueueCapacity
          /\ evRecvd \o eventq \o EventsOf(s2c) = EventsOf(wireSent)
          /\ rawRecvd \o rawq \o PayloadsOf(RawOf(s2c)) = PayloadsOf(RawOf(wireSent)))
    /\ [][(FrameReady /\ QueueFullFor(NextFrame))
             => /\ Len(s2c') >= Len(s2c)
                /\ Head(s2c') = NextFrame
                /\ Len(eventq') <= Len(eventq)
                /\ Len(rawq') <= Len(rawq)]_vars

\* a queue is full after the application has popped from it, the frame the
\* loop holds waits and another frame is behind it
C35_Witness ==
    /\ \/ Len(eventq) = QueueCapacity /\ evRecvd # << >>
       \/ Len(rawq) = QueueCapacity /\ rawRecvd # << >>
    /\ Len(s2c) = 2
    /\ QueueFullFor(NextFrame)

\* C36: a Response that is on the stream for a request whose entry is in the
\* pending map is eventually taken by the receive loop and handed to the
\* waiter, though the application never pops the queues and whatever the
\* peer wrote before it.
C36_ResponseNotStarved ==
    \A id \in 1..NumCallers :
       (/\ id \in DOMAIN pending
        /\ \E i \in DOMAIN s2c : s2c[i].kind = "Response" /\ s2c[i].id = id)
          ~> (id \notin DOMAIN pending)

InvocationsOf(k) == {i \in 1..Len(invocations) : invocations[i].stream = k}
\* the first frame asks for a channel whose handler is registered
Routable(first) ==
    /\ first.t = "proto"
    /\ first.method[1] = "__channel:"
    /\ first.method[2] \in channel_handlers

\* C16: for each client-initiated stream the server invokes a channel handler
\* if and only if the handshake frame is a protocol frame whose method is
\* __channel:<name> with a handler registered for <name>; the handler then
\* runs once, with the connection's context and that stream.  In every other
\* case no handler runs and the stream is closed straight away.
C16_ServerDispatch ==
    /\ [](\A k \in StreamIds :
             /\ Cardinality(InvocationsOf(k)) <= 1
             /\ cstreams[k].state = "handler" => Cardinality(InvocationsOf(k)) = 1
             /\ cstreams[k].state \in {"none", "opened", "accepted"} => InvocationsOf(k) = {}
             /\ \A i \in InvocationsOf(k) :
                   /\ Routable(cstreams[k].first)
                   /\ invocations[i].handler = cstreams[k].first.method[2]
                   /\ invocations[i].ctx = srvIdentity)
    /\ [][\A k \in StreamIds :
             /\ (cstreams[k].state = "accepted" /\ cstreams'[k].state # "accepted")
                   => IF Routable(cstreams[k].first)
                      THEN /\ cstreams'[k].state = "handler"
                           /\ Len(invocations') = Len(invocations) + 1
                      ELSE /\ cstreams'[k].state = "closed"
                           /\ invocations' = invocations
             /\ (cstreams[k].state # "handler" /\ cstreams'[k].state = "handler")
                   => cstreams[k].state = "accepted"]_vars

C16_Witness ==
    /\ cstreams[1].state = "closed"
    /\ cstreams[1].first.method = PlainMethod("ping")
    /\ cstreams[2].state = "handler"
    /\ Len(invocations) = 1
    /\ invocations[1] = [handler |-> "ping", ctx |-> srvIdentity, stream |-> 2]

C19_ConnectCompletes == (cliPc = "receive_identity") ~> (cliPc = "connected")

IdentityNames(identity) == {identity.channels[i].name : i \in 1..Len(identity.channels)}

====
